---------------------------- MODULE Spec2Model ----------------------------
(***************************************************************************)
(* The knowledge-graph analyzer of the Obsidian agent                      *)
(* (src/src/tools/obsidian_graph_analyzer/service.py) with the helpers it  *)
(* calls: validate_vault_path and is_path_allowed                          *)
(* (src/src/shared/vault_security.py) and extract_wikilinks / get_all_tags *)
(* (src/src/shared/obsidian_parsers.py).                                   *)
(*                                                                         *)
(* Representation of strings that the code takes apart:                    *)
(*   - a path is a sequence of segments (the text between "/");            *)
(*   - a segment is a sequence of atoms, the file name cut at its dots:    *)
(*     "nested.md" is <<"nested", ".md">>, ".obsidian" is <<".obsidian">>, *)
(*     ".." is <<"..">>.  The first atom is the name, every later atom     *)
(*     starts with a dot;                                                  *)
(*   - an absolute path starts with the segment ROOT.                      *)
(* A wikilink target is a path in this sense ("subfolder/nested").         *)
(***************************************************************************)
EXTENDS Integers, Sequences, FiniteSets, TLC

\* ------------------------------------------------------------------------
\* Sequence helpers
\* ------------------------------------------------------------------------

Last(s) == s[Len(s)]

Front(s) == SubSeq(s, 1, Len(s) - 1)

Range(s) == {s[i] : i \in 1..Len(s)}

IsPrefix(p, s) == Len(p) <= Len(s) /\ SubSeq(s, 1, Len(p)) = p

RECURSIVE FlattenRange(_, _, _)
\* The concatenation of ss[lo], ..., ss[hi], by halving.
FlattenRange(ss, lo, hi) ==
    IF lo > hi THEN <<>>
    ELSE IF lo = hi THEN ss[lo]
    ELSE FlattenRange(ss, lo, (lo + hi) \div 2) \o FlattenRange(ss, (lo + hi) \div 2 + 1, hi)

Flatten(ss) == FlattenRange(ss, 1, Len(ss))

Min(S) == CHOOSE x \in S : \A y \in S : x <= y

Max(S) == CHOOSE x \in S : \A y \in S : x >= y

\* ------------------------------------------------------------------------
\* Paths (pathlib)
\* ------------------------------------------------------------------------

ROOT == <<"/">>

DOT == <<".">>

DOTDOT == <<"..">>

\* The vault root handed to the service ("Absolute path to Obsidian vault root").
vault_root == <<ROOT, <<"vault">>>>

\* A file name longer than NAME_MAX: stat() on it fails with ENAMETOOLONG.
LONGNAME == "<name of 300 characters>"

IsOverlong(seg) == LONGNAME \in Range(seg)

\* Path.is_absolute()
is_absolute(p) == p # <<>> /\ p[1] = ROOT

\* PurePath parsing: "." segments and empty segments vanish, ".." stays.
PurePath(p) == SelectSeq(p, LAMBDA seg : seg # DOT /\ seg # <<>>)

\* Path.__truediv__: an absolute right operand replaces the left one.
PathJoin(base, rel) == IF is_absolute(rel) THEN PurePath(rel) ELSE PurePath(base \o rel)

\* PurePath.suffix: the last dot-atom of the final segment, "" when there is none.
suffix(p) == IF p # <<>> /\ Len(Last(p)) > 1 THEN Last(Last(p)) ELSE ""

\* PurePath.stem: the final segment without its suffix.
stem(p) == IF p = <<>> THEN <<>> ELSE IF Len(Last(p)) > 1 THEN Front(Last(p)) ELSE Last(p)

\* str.lower() on the extensions the model uses.
lower(ext) == CASE ext = ".MD" -> ".md" [] ext = ".TXT" -> ".txt" [] OTHER -> ext

RECURSIVE ResolveFrom(_, _, _)
\* Path.resolve(strict=False) in a file system without symbolic links: ".." is
\* taken against the part already resolved, and the root is its own parent.
ResolveFrom(p, i, acc) ==
    IF i > Len(p) THEN acc
    ELSE IF p[i] = DOTDOT
         THEN ResolveFrom(p, i + 1, IF Len(acc) > 1 THEN Front(acc) ELSE acc)
         ELSE ResolveFrom(p, i + 1, Append(acc, p[i]))

resolve(p) == ResolveFrom(PurePath(p), 2, <<ROOT>>)

\* PurePath.relative_to(base): purely lexical.  [ok |-> FALSE] is ValueError.
relative_to(p, base) ==
    IF IsPrefix(base, p)
    THEN [ok |-> TRUE, path |-> SubSeq(p, Len(base) + 1, Len(p))]
    ELSE [ok |-> FALSE, path |-> <<>>]

\* ------------------------------------------------------------------------
\* The file system under the vault.  A file system fs is a record
\*   files       : [absolute path -> note content]   (the regular files)
\*   dirs        : set of absolute paths             (the directories)
\*   unreadable  : set of absolute paths of files whose read fails
\*                 (permissions, bytes that are not UTF-8)
\*   scan        : the order in which rglob yields the files
\*   stat_raises : whether Path.exists() lets ENAMETOOLONG through
\*                 (CPython up to 3.13 does; later versions answer False)
\* ------------------------------------------------------------------------

RECURSIVE StatWalk(_, _, _, _)
\* os.stat(p) for an absolute path: "yes", "no" (ENOENT, ENOTDIR) or "raise"
\* (ENAMETOOLONG).  The kernel walks the components, so ".." needs the
\* directory before it to exist.
StatWalk(fs, p, i, cur) ==
    IF i > Len(p) THEN "yes"
    ELSE IF cur \notin fs.dirs THEN "no"
    ELSE IF p[i] = DOTDOT
         THEN StatWalk(fs, p, i + 1, IF Len(cur) > 1 THEN Front(cur) ELSE cur)
    ELSE IF IsOverlong(p[i]) THEN "raise"
    ELSE IF Append(cur, p[i]) \in fs.dirs \cup DOMAIN fs.files
         THEN StatWalk(fs, p, i + 1, Append(cur, p[i]))
         ELSE "no"

\* Path.exists(): True, False, or the OSError it does not swallow.
exists(fs, p) ==
    LET r == StatWalk(fs, PurePath(p), 2, <<ROOT>>)
    IN  IF r = "raise" /\ ~fs.stat_raises THEN "no" ELSE r

\* ------------------------------------------------------------------------
\* src/shared/vault_security.py
\* ------------------------------------------------------------------------

BLOCKED_PATTERNS == {<<".obsidian">>, <<".git">>, <<".trash">>, <<"node_modules">>}

ALLOWED_EXTENSIONS == {".md", ".markdown", ".txt"}

\* Mutant of validate_vault_path: the containment test is left out.
validate_vault_path_NoContainment(root, requested_path) ==
    [ok |-> TRUE,
     path |-> IF is_absolute(requested_path) THEN resolve(requested_path)
              ELSE resolve(PathJoin(resolve(root), requested_path))]

\* validate_vault_path: [ok |-> FALSE] is SecurityError.
validate_vault_path(root, requested_path) ==
    LET vault_root_path == resolve(root)
        full_path == IF is_absolute(requested_path)
                     THEN resolve(requested_path)
                     ELSE resolve(PathJoin(vault_root_path, requested_path))
    IN  IF relative_to(full_path, vault_root_path).ok
        THEN [ok |-> TRUE, path |-> full_path]
        ELSE [ok |-> FALSE, path |-> <<>>]

\* Mutant of is_path_allowed: every path is allowed.
is_path_allowed_Always(path) == TRUE

\* is_path_allowed: the extension whitelist, then the blocked directories.
is_path_allowed(path) ==
    LET file_path == PurePath(path)
    IN  /\ ~(suffix(file_path) # "" /\ lower(suffix(file_path)) \notin ALLOWED_EXTENSIONS)
        /\ \A i \in 1..Len(file_path) : file_path[i] \notin BLOCKED_PATTERNS

\* ------------------------------------------------------------------------
\* src/shared/obsidian_parsers.py
\*
\* The text of a note is a record
\*   fm_valid    : whether the YAML frontmatter parses (frontmatter.loads
\*                 does not raise)
\*   fm_tags     : the tags of the YAML frontmatter, in order
\*   inline_tags : the #tags of the body, in order of appearance
\*   lines       : the lines of the file, each the sequence of its [[...]]
\*                 items in order of appearance; an item is
\*                 [target, bang, heading, display]: the text before "#"
\*                 and "|", whether "!" precedes it, whether it has a
\*                 "#heading" part and whether it has a "|display" part.
\* ------------------------------------------------------------------------

RECURSIVE Dedupe(_, _)
\* list(dict.fromkeys(xs)): the first occurrence of each element, in order.
Dedupe(xs, seen) ==
    IF xs = <<>> THEN <<>>
    ELSE IF Head(xs) \in seen THEN Dedupe(Tail(xs), seen)
         ELSE <<Head(xs)>> \o Dedupe(Tail(xs), seen \cup {Head(xs)})

\* extract_frontmatter_safely(content): the metadata, {} when the
\* frontmatter does not parse (the exception is swallowed and the whole text
\* is kept as the body).
extract_frontmatter_safely(content) ==
    IF content.fm_valid THEN [tags |-> content.fm_tags] ELSE [tags |-> <<>>]

\* get_all_tags(body, metadata): frontmatter tags, then inline tags, unique.
get_all_tags(content) ==
    Dedupe(Dedupe(extract_frontmatter_safely(content).tags, {})
           \o Dedupe(content.inline_tags, {}), {})

WikiLink(item, embed, line_idx) ==
    [target |-> item.target, is_embed |-> embed,
     heading |-> (~embed /\ item.heading), line_number |-> line_idx]

RECURSIVE MatchAll(_, _, _, _)
\* The matches of one of the three patterns in a line, left to right.
\*   "embed"   EMBED_PATTERN: every item preceded by "!";
\*   "heading" HEADING_WIKILINK_PATTERN: every item with a "#heading" part;
\*             the pattern starts at "[[" and so also matches inside "![[x#h]]";
\*   "plain"   WIKILINK_PATTERN, minus the matches preceded by "!" and the
\*             matches whose text contains "#".
MatchAll(line, pattern, line_idx, i) ==
    IF i > Len(line) THEN <<>>
    ELSE LET item == line[i]
             hit == CASE pattern = "embed" -> item.bang
                      [] pattern = "heading" -> item.heading
                      [] OTHER -> ~item.bang /\ ~item.heading
         IN  (IF hit THEN <<WikiLink(item, pattern = "embed", line_idx)>> ELSE <<>>)
             \o MatchAll(line, pattern, line_idx, i + 1)

\* The links of line i (line_number i - 1): the embeds, then the heading
\* links, then the plain links.
LineLinks(lines, i) ==
    MatchAll(lines[i], "embed", i - 1, 1)
    \o MatchAll(lines[i], "heading", i - 1, 1)
    \o MatchAll(lines[i], "plain", i - 1, 1)

\* extract_wikilinks(content): line by line, and within a line pattern by
\* pattern.
extract_wikilinks(content) ==
    Flatten([i \in 1..Len(content.lines) |-> LineLinks(content.lines, i)])

\* ------------------------------------------------------------------------
\* _resolve_wikilink (service.py)
\* ------------------------------------------------------------------------

\* f"{target}.md"
WithMd(target) ==
    IF target = <<>> THEN <<<<".md">>>>
    ELSE Append(Front(target), Append(Last(target), ".md"))

\* target.split("/")[-1]
target_filename(target) == IF target = <<>> THEN <<>> ELSE Last(target)

\* target_filename.replace(".md", "")
target_stem(target) == SelectSeq(target_filename(target), LAMBDA atom : atom # ".md")

\* Mutant of candidates: the bare file name is tried before the full target.
candidates_NameFirst(target) ==
    (IF target_filename(target) # <<>>
     THEN <<WithMd(<<target_filename(target)>>)>> ELSE <<>>)
    \o <<WithMd(target), target>>

\* The candidates tried as direct paths, in order.
candidates(target) ==
    <<WithMd(target), target>>
    \o (IF target_filename(target) # <<>>
        THEN <<WithMd(<<target_filename(target)>>)>> ELSE <<>>)

\* vault_root.rglob("*.md"): the files below the vault whose name ends in ".md".
rglob_md(fs) ==
    SelectSeq(fs.scan, LAMBDA f : IsPrefix(vault_root, f) /\ Len(f) > Len(vault_root)
                                   /\ Last(Last(f)) = ".md")

\* The fallback: the first scanned file with the target's stem that is allowed.
ScanFrom(files, wanted) ==
    LET matches == {i \in 1..Len(files) :
                        /\ stem(files[i]) = wanted
                        /\ is_path_allowed(files[i])
                        /\ relative_to(files[i], vault_root).ok}
    IN  IF matches = {} THEN [kind |-> "none", path |-> <<>>]
        ELSE [kind |-> "path", path |-> relative_to(files[Min(matches)], vault_root).path]

RECURSIVE TryCandidates(_, _, _, _)
\* The loop over the candidates; "raise" is the OSError of Path.exists().
TryCandidates(fs, cands, target, i) ==
    IF i > Len(cands) THEN ScanFrom(rglob_md(fs), target_stem(target))
    ELSE LET candidate_path == PathJoin(vault_root, cands[i])
             found == exists(fs, candidate_path)
         IN  IF found = "raise" THEN [kind |-> "raise", path |-> <<>>]
             ELSE IF found = "yes" /\ is_path_allowed(candidate_path)
                       /\ relative_to(candidate_path, vault_root).ok
                  THEN [kind |-> "path",
                        path |-> relative_to(candidate_path, vault_root).path]
                  ELSE TryCandidates(fs, cands, target, i + 1)

\* _resolve_wikilink(target, vault_root): [kind |-> "path", path |-> p],
\* [kind |-> "none"] (None) or [kind |-> "raise"] (an exception).
_resolve_wikilink(fs, target) == TryCandidates(fs, candidates(target), target, 1)

\* ------------------------------------------------------------------------
\* analyze_graph_service (service.py)
\* ------------------------------------------------------------------------

MAX_NODES == 100

\* nodes_dict is a Python dict keyed by node.path: insertion-ordered, and an
\* assignment to a key it holds replaces the value in place.
DictKeys(d) == {d[i].path : i \in 1..Len(d)}

DictIndex(d, key) == CHOOSE i \in 1..Len(d) : d[i].path = key

DictSet(d, node) ==
    IF node.path \in DictKeys(d)
    THEN [d EXCEPT ![DictIndex(d, node.path)] = node]
    ELSE Append(d, node)

\* Mutant of PopLeft: the head is read (queue[0]) but never removed.
PopLeft_Peek(queue) == queue

\* queue.popleft(): what is left of the queue.
PopLeft(queue) == Tail(queue)

\* Mutant of SkipEntry: the visited set is not consulted.
SkipEntry_DepthOnly(current_path, current_depth, visited, request) ==
    current_depth > request.depth

\* "if current_path in visited: continue" / "if current_depth > request.depth: continue"
SkipEntry(current_path, current_depth, visited, request) ==
    current_path \in visited \/ current_depth > request.depth

\* Mutant of FilteredOut: the tag filter is never applied.
FilteredOut_Never(tags, request) == FALSE

\* "if request.filter_tags: if not any(tag in tags for tag in request.filter_tags)"
FilteredOut(tags, request) ==
    /\ request.filter_tags # <<>>
    /\ ~\E i \in 1..Len(request.filter_tags) : request.filter_tags[i] \in Range(tags)

\* Mutant of Enqueue: the target is appended whatever the current depth.
Enqueue_AnyDepth(target_path, current_depth, request) ==
    <<[path |-> target_path, depth |-> current_depth + 1]>>

\* "if current_depth < request.depth: queue.append((target_path, current_depth + 1))"
Enqueue(target_path, current_depth, request) ==
    IF current_depth < request.depth
    THEN <<[path |-> target_path, depth |-> current_depth + 1]>>
    ELSE <<>>

\* "if link.is_embed: continue"
SkipLink(link) == link.is_embed

\* The loop over the wikilinks of one note (lines 104-115): the resolved
\* targets, the entries appended to the queue, and whether _resolve_wikilink
\* raised, which ends the loop with the entries appended so far in the queue.
ProcessLinks(fs, wikilinks, current_depth, request) ==
    LET resolved == [i \in 1..Len(wikilinks) |->
                        IF SkipLink(wikilinks[i]) THEN [kind |-> "none", path |-> <<>>]
                        ELSE _resolve_wikilink(fs, wikilinks[i].target)]
        raising == {i \in 1..Len(wikilinks) : resolved[i].kind = "raise"}
        last == IF raising = {} THEN Len(wikilinks) ELSE Min(raising) - 1
    IN  [targets |-> Flatten([i \in 1..last |->
                        IF resolved[i].kind = "path" THEN <<resolved[i].path>> ELSE <<>>]),
         appended |-> Flatten([i \in 1..last |->
                        IF resolved[i].kind = "path"
                        THEN Enqueue(resolved[i].path, current_depth, request) ELSE <<>>]),
         raised |-> raising # {}]

\* What reading the dequeued path gives (lines 81-90): "security"
\* (validate_vault_path raised), "missing" (not found), "error" (open or read
\* raised: a directory, an unreadable file) or "ok" with the content.
ReadNote(fs, current_path) ==
    LET v == validate_vault_path(vault_root, current_path)
    IN  IF ~v.ok THEN [kind |-> "security"]
        ELSE IF exists(fs, v.path) = "raise" THEN [kind |-> "error"]
        ELSE IF exists(fs, v.path) = "no" THEN [kind |-> "missing"]
        ELSE IF v.path \in fs.dirs \/ v.path \in fs.unreadable THEN [kind |-> "error"]
        ELSE [kind |-> "ok", full_path |-> v.path, content |-> fs.files[v.path]]

GraphNode(path, title, tags, outbound_links, depth) ==
    [path |-> path, title |-> title, tags |-> tags,
     outbound_links |-> outbound_links, inbound_links |-> <<>>, depth |-> depth]

\* The state of one call: pc is "start" before line 46, "loop" at the head of
\* the while loop, "done" once the response is returned and "raised" when the
\* call ended with an exception; reads lists the entries whose file was
\* read (the calls of f.read() at line 90), in order.
InitCall ==
    [pc |-> "start", nodes_dict |-> <<>>, visited |-> {}, queue |-> <<>>,
     reads |-> <<>>, response |-> [kind |-> "none"]]

\* Mutant of SeedQueue: the center note is seeded at depth 1.
SeedQueue_DepthOne(request) == <<[path |-> request.center_note, depth |-> 1]>>

\* "queue = deque([(request.center_note, 0)])"
SeedQueue(request) == <<[path |-> request.center_note, depth |-> 0]>>

\* Lines 46-67: the center note is validated and the traversal state built.
StartCall(fs, request, st) ==
    LET v == validate_vault_path(vault_root, request.center_note)
    IN  IF ~v.ok THEN [st EXCEPT !.pc = "raised", !.response = [kind |-> "SecurityError"]]
        ELSE IF exists(fs, v.path) = "raise"
             THEN [st EXCEPT !.pc = "raised", !.response = [kind |-> "OSError"]]
        ELSE IF exists(fs, v.path) = "no"
             THEN [st EXCEPT !.pc = "raised", !.response = [kind |-> "FileNotFoundError"]]
        ELSE [st EXCEPT !.pc = "loop",
                        !.nodes_dict = <<>>,
                        !.visited = {},
                        !.queue = SeedQueue(request)]

\* Mutant of LoopCondition: the cap is tested with <= instead of <.
LoopCondition_OffByOne(st) == st.queue # <<>> /\ Len(st.nodes_dict) <= MAX_NODES

\* "while queue and len(nodes_dict) < MAX_NODES"
LoopCondition(st) == st.queue # <<>> /\ Len(st.nodes_dict) < MAX_NODES

\* An iteration up to its await point (lines 70-90): the entry is dequeued,
\* tested, marked visited and its path validated; when the file can be opened
\* the call is suspended in f.read() with pc = "reading", the pending entry
\* being the last of reads, and otherwise the iteration is over.
ToAwait(fs, request, st) ==
    LET current_path == Head(st.queue).path
        current_depth == Head(st.queue).depth
        popped == [st EXCEPT !.queue = PopLeft(st.queue)]
    IN  IF SkipEntry(current_path, current_depth, st.visited, request) THEN popped
        ELSE
        LET marked == [popped EXCEPT !.visited = @ \cup {current_path}]
            note == ReadNote(fs, current_path)
        IN  IF note.kind # "ok" THEN marked
            ELSE [marked EXCEPT !.pc = "reading",
                                !.reads = Append(@, [path |-> current_path,
                                                     depth |-> current_depth])]

\* The rest of the iteration once f.read() has returned (lines 90-143).
FromAwait(fs, request, st) ==
    LET current_path == Last(st.reads).path
        current_depth == Last(st.reads).depth
        note == ReadNote(fs, current_path)
        read == [st EXCEPT !.pc = "loop"]
        tags == get_all_tags(note.content)
    IN  IF FilteredOut(tags, request) THEN read
        ELSE
        LET links == ProcessLinks(fs, extract_wikilinks(note.content),
                                  current_depth, request)
            queued == [read EXCEPT !.queue = @ \o links.appended]
        IN  IF links.raised THEN queued
            ELSE [queued EXCEPT !.nodes_dict =
                    DictSet(@, GraphNode(current_path, stem(note.full_path),
                                         tags, links.targets, current_depth))]

\* One iteration of the while loop (lines 70-143).
IterateCall(fs, request, st) ==
    LET suspended == ToAwait(fs, request, st)
    IN  IF suspended.pc = "reading" THEN FromAwait(fs, request, suspended)
        ELSE suspended

\* Mutant of Appended: the second pass appends the target's own path.
Appended_Swapped(node, path) ==
    [j \in 1..Len(SelectSeq(node.outbound_links, LAMBDA out : out = path)) |-> path]

\* What the second pass appends to the inbound_links of the node keyed
\* `path` while it handles `node` (lines 147-149): node.path once for every
\* occurrence of `path` in node.outbound_links.
Appended(node, path) ==
    [j \in 1..Len(SelectSeq(node.outbound_links, LAMBDA out : out = path)) |-> node.path]

\* "Second pass: build inbound links" (lines 146-149): the nodes are handled
\* in the order of the dict, so each inbound list is the concatenation of
\* what each node appends to it.
SecondPass(d) ==
    [b \in 1..Len(d) |->
        [d[b] EXCEPT !.inbound_links =
            @ \o Flatten([a \in 1..Len(d) |-> Appended(d[a], d[b].path)])]]

\* max((n.depth for n in nodes_list), default=0)
MaxDepth(nodes_list) ==
    IF nodes_list = <<>> THEN 0 ELSE Max({nodes_list[i].depth : i \in 1..Len(nodes_list)})

\* Mutant of Truncated: the cap is compared with > instead of >=.
Truncated_Strict(nodes_list) == Len(nodes_list) > MAX_NODES

\* "truncated = len(nodes_list) >= MAX_NODES"
Truncated(nodes_list) == Len(nodes_list) >= MAX_NODES

\* Lines 145-172: the second pass and the response.
FinishCall(request, st) ==
    LET nodes_list == SecondPass(st.nodes_dict)
    IN  [st EXCEPT !.pc = "done",
                   !.nodes_dict = nodes_list,
                   !.response = [kind |-> "response",
                                 center_note |-> request.center_note,
                                 nodes |-> nodes_list,
                                 total_nodes |-> Len(nodes_list),
                                 depth_reached |-> MaxDepth(nodes_list),
                                 truncated |-> Truncated(nodes_list)]]

\* ------------------------------------------------------------------------
\* Inputs: the vaults and requests the calls are checked on
\* ------------------------------------------------------------------------

\* Bounds of the input families.
MaxEdges == 4

BigExtra == 1

MaxItems == 2

\* Text building blocks.
Item(target, bang, heading, display) ==
    [target |-> target, bang |-> bang, heading |-> heading, display |-> display]

Link(name) == Item(<<<<name>>>>, FALSE, FALSE, FALSE)

\* A note whose links stand one per line.
OnePerLine(items) == [i \in 1..Len(items) |-> <<items[i]>>]

Note(fm_tags, inline_tags, lines) ==
    [fm_valid |-> TRUE, fm_tags |-> fm_tags, inline_tags |-> inline_tags, lines |-> lines]

\* The same note with a frontmatter block that is not valid YAML.
Malformed(note) == [note EXCEPT !.fm_valid = FALSE]

InVault(rel) == vault_root \o rel

NoteFile(name) == InVault(<<<<name, ".md">>>>)

NotePath(name) == <<<<name, ".md">>>>

Request(center_note, depth, filter_tags) ==
    [center_note |-> center_note, depth |-> depth, filter_tags |-> filter_tags]

Depths == 1..3

BaseDirs == {<<ROOT>>, vault_root}

FileSystem(files, dirs, unreadable, scan, stat_raises) ==
    [files |-> files, dirs |-> dirs, unreadable |-> unreadable, scan |-> scan,
     stat_raises |-> stat_raises]

\* --- Family "graph": every link structure with at most MaxEdges links over
\* three notes at the vault root, from the center a.md: with a tag filter
\* under every tagging, without one, with one unreadable note, and with one
\* note whose frontmatter is malformed.
Names == <<"a", "b", "c">>

NameSet == Range(Names)

EdgeSets == {E \in SUBSET (NameSet \X NameSet) : Cardinality(E) <= MaxEdges}

GraphNote(n, E, tagged) ==
    Note(IF n \in tagged THEN <<"project">> ELSE <<>>, <<>>,
         OnePerLine([i \in 1..Len(SelectSeq(Names, LAMBDA t : <<n, t>> \in E)) |->
                        Link(SelectSeq(Names, LAMBDA t : <<n, t>> \in E)[i])]))

GraphVault(E, tagged, bad) ==
    FileSystem([f \in {NoteFile(n) : n \in NameSet} |-> GraphNote(f[3][1], E, tagged)],
               BaseDirs, {NoteFile(n) : n \in bad},
               [i \in 1..Len(Names) |-> NoteFile(Names[i])], TRUE)

\* The graph vault where the frontmatter of the note `bad` is malformed.
MalformedVault(E, bad) ==
    [GraphVault(E, {bad}, {}) EXCEPT
        !.files[NoteFile(bad)] = Malformed(GraphNote(bad, E, {bad}))]

\* --- Family "big": vaults around the node cap.  A star (a hub linking to n
\* leaves) and a clique (every note links to every other note).
LeafName(i) == "n" \o ToString(i)

EmptyNote == Note(<<>>, <<>>, <<>>)

StarVault(n) ==
    FileSystem([f \in {NoteFile("hub")} \cup {NoteFile(LeafName(i)) : i \in 1..n} |->
                    IF f = NoteFile("hub")
                    THEN Note(<<>>, <<>>, OnePerLine([i \in 1..n |-> Link(LeafName(i))]))
                    ELSE EmptyNote],
               BaseDirs, {},
               <<NoteFile("hub")>> \o [i \in 1..n |-> NoteFile(LeafName(i))], TRUE)

CliqueVault(n) ==
    FileSystem([f \in {NoteFile(LeafName(i)) : i \in 1..n} |->
                    Note(<<>>, <<>>,
                         OnePerLine(SelectSeq([i \in 1..n |-> Link(LeafName(i))],
                                              LAMBDA item : NoteFile(item.target[1][1]) # f)))],
               BaseDirs, {},
               [i \in 1..n |-> NoteFile(LeafName(i))], TRUE)

\* --- Family "forms": one vault with a subfolder, a blocked directory, a plain
\* directory, an unreadable file and a file outside the vault; the text of
\* a.md is any sequence of at most MaxItems items of a menu.
FormsFiles ==
    (NoteFile("a") :> EmptyNote)
    @@ (NoteFile("b") :> Note(<<>>, <<>>, <<<<Link("a")>>>>))
    @@ (NoteFile("bin") :> EmptyNote)
    @@ (InVault(<<<<"sub">>, <<"nested", ".md">>>>) :> Note(<<>>, <<>>, <<<<Link("b")>>>>))
    @@ (InVault(<<<<".obsidian">>, <<"hidden", ".md">>>>) :> Note(<<>>, <<>>, <<<<Link("b")>>>>))
    @@ (InVault(<<<<"projects">>, <<"plan", ".md">>>>) :> EmptyNote)
    @@ (<<ROOT, <<"outside", ".md">>>> :> Note(<<>>, <<>>, <<<<Link("b")>>>>))

FormsDirs ==
    BaseDirs \cup {InVault(<<<<"sub">>>>), InVault(<<<<".obsidian">>>>),
                   InVault(<<<<"projects">>>>)}

FormsScan ==
    <<InVault(<<<<".obsidian">>, <<"hidden", ".md">>>>),
      NoteFile("a"), NoteFile("b"), NoteFile("bin"),
      InVault(<<<<"projects">>, <<"plan", ".md">>>>),
      InVault(<<<<"sub">>, <<"nested", ".md">>>>)>>

FormsVault(a_note, stat_raises) ==
    FileSystem([FormsFiles EXCEPT ![NoteFile("a")] = a_note],
               FormsDirs, {NoteFile("bin")}, FormsScan, stat_raises)

Menu ==
    {Link("b"), Link("a"), Link("nested"), Link("projects"), Link("hidden"),
     Link("missing"), Link("bin"), Link(LONGNAME),
     Item(<<<<"sub">>, <<"nested">>>>, FALSE, FALSE, FALSE),
     Item(<<DOTDOT, <<"outside">>>>, FALSE, FALSE, FALSE),
     Item(<<<<"b">>>>, TRUE, FALSE, FALSE),
     Item(<<<<"b">>>>, TRUE, TRUE, FALSE),
     Item(<<<<"b">>>>, FALSE, TRUE, FALSE),
     Item(<<<<"b">>>>, FALSE, FALSE, TRUE)}

ItemSeqs == UNION {[1..k -> Menu] : k \in 0..MaxItems}

\* --- Family "resolve": the forms vault with more files (a note of the same
\* name at the root and in a folder, a note in a blocked directory that
\* shadows one at the root, a picture), with or without a nested.md at the
\* root; a.md holds one link.
ResolveFiles(root_nested) ==
    FormsFiles
    @@ (InVault(<<<<"sub">>, <<"b", ".md">>>>) :> EmptyNote)
    @@ (InVault(<<<<".obsidian">>, <<"b", ".md">>>>) :> EmptyNote)
    @@ (InVault(<<<<"pic", ".png">>>>) :> EmptyNote)
    @@ (IF root_nested THEN (NoteFile("nested") :> EmptyNote) ELSE <<>>)

ResolveScan(root_nested) ==
    <<InVault(<<<<".obsidian">>, <<"b", ".md">>>>)>>
    \o FormsScan
    \o <<InVault(<<<<"sub">>, <<"b", ".md">>>>)>>
    \o (IF root_nested THEN <<NoteFile("nested")>> ELSE <<>>)

ResolveVault(item, root_nested) ==
    FileSystem([ResolveFiles(root_nested) EXCEPT
                    ![NoteFile("a")] = Note(<<>>, <<>>, <<<<item>>>>)],
               FormsDirs, {NoteFile("bin")}, ResolveScan(root_nested), TRUE)

Target(segments) == Item(segments, FALSE, FALSE, FALSE)

ResolveMenu ==
    {Target(<<<<"sub">>, <<"nested">>>>), Target(<<<<"nested">>>>),
     Target(<<<<"nested", ".md">>>>), Target(<<<<"sub">>, <<"nested", ".md">>>>),
     Target(<<<<"sub">>, <<"b">>>>), Target(<<<<"b">>>>),
     Target(<<<<"zzz">>, <<"b">>>>), Target(<<<<".obsidian">>, <<"b">>>>),
     Target(<<<<".obsidian">>, <<"hidden">>>>), Target(<<<<"hidden">>>>),
     Target(<<<<"pic", ".png">>>>), Target(<<<<"missing">>>>),
     Target(<<<<"projects">>>>), Target(<<DOTDOT, <<"outside">>>>)}

\* --- Family "center": the forms vault with a.md and b.md linking to each
\* other, and the center note given in every form.
CenterForms ==
    {NotePath("a"), <<DOT, <<"a", ".md">>>>, <<<<"sub">>, DOTDOT, <<"a", ".md">>>>,
     NoteFile("a"), NotePath("missing"), <<DOTDOT, <<"outside", ".md">>>>,
     <<<<"projects">>>>, <<<<".obsidian">>, <<"hidden", ".md">>>>, NotePath("bin"),
     NotePath(LONGNAME)}

\* ------------------------------------------------------------------------
\* The state machine: one call of analyze_graph_service on a fixed vault
\* ------------------------------------------------------------------------

\* fs and request are the inputs of the call; pc, nodes_dict, visited, queue
\* and response are its locals; reads logs the file reads; turn flips each
\* time the event loop runs the coroutine for one more step.  second is
\* empty when the call is the only one, and otherwise holds the request and
\* the locals of a second call made on the same event loop.  org, fmgr and
\* nmgr are empty here; each holds the state of a call of another tool
\* (organize_vault_service, manage_folder_service, manage_note_service).
VARIABLES fs, request, pc, nodes_dict, visited, queue, reads, response, turn, second,
          org, fmgr, nmgr

vars == <<fs, request, pc, nodes_dict, visited, queue, reads, response, turn, second,
          org, fmgr, nmgr>>

call == [pc |-> pc, nodes_dict |-> nodes_dict, visited |-> visited, queue |-> queue,
         reads |-> reads, response |-> response]

Becomes(st) ==
    /\ pc' = st.pc
    /\ nodes_dict' = st.nodes_dict
    /\ visited' = st.visited
    /\ queue' = st.queue
    /\ reads' = st.reads
    /\ response' = st.response
    /\ turn' = ~turn
    /\ UNCHANGED <<fs, request, second, org, fmgr, nmgr>>

\* A call about to be made with the given vault and request.
Setup(vault, req) ==
    /\ fs = vault
    /\ request = req
    /\ pc = InitCall.pc
    /\ nodes_dict = InitCall.nodes_dict
    /\ visited = InitCall.visited
    /\ queue = InitCall.queue
    /\ reads = InitCall.reads
    /\ response = InitCall.response
    /\ turn = FALSE
    /\ org = <<>> /\ fmgr = <<>> /\ nmgr = <<>>
    /\ second = <<>>

InitGraph ==
    \/ \E E \in EdgeSets, tagged \in SUBSET NameSet, d \in Depths :
            Setup(GraphVault(E, tagged, {}), Request(NotePath("a"), d, <<"project">>))
    \/ \E E \in EdgeSets, d \in Depths :
            Setup(GraphVault(E, {}, {}), Request(NotePath("a"), d, <<>>))
    \/ \E E \in EdgeSets, bad \in NameSet, d \in Depths :
            Setup(GraphVault(E, {}, {bad}), Request(NotePath("a"), d, <<>>))
    \/ \E E \in EdgeSets, bad \in NameSet :
            Setup(MalformedVault(E, bad), Request(NotePath("a"), 2, <<>>))

InitBig ==
    \/ \E n \in (MAX_NODES - 2)..(MAX_NODES + BigExtra), d \in {1, 3} :
            Setup(StarVault(n), Request(NotePath("hub"), d, <<>>))
    \/ \E n \in MAX_NODES..(MAX_NODES + BigExtra) :
            Setup(CliqueVault(n), Request(NotePath(LeafName(1)), 3, <<>>))

\* Whether stat() raises on an overlong name or reports it missing depends on
\* the Python build; the two outcomes differ only when such a name is used.
StatOutcomes(items) ==
    IF \E i \in 1..Len(items) : \E k \in 1..Len(items[i].target) :
            IsOverlong(items[i].target[k])
    THEN BOOLEAN ELSE {TRUE}

InitForms ==
    \E items \in ItemSeqs, same_line \in BOOLEAN, d \in {1, 2} :
      \E stat_raises \in StatOutcomes(items) :
        Setup(FormsVault(Note(<<>>, <<>>,
                              IF same_line THEN <<items>> ELSE OnePerLine(items)),
                         stat_raises),
              Request(NotePath("a"), d, <<>>))

InitCenter ==
    \E c \in CenterForms, tags \in {<<>>, <<"project">>}, stat_raises \in BOOLEAN,
       d \in Depths, f \in {<<>>, <<"project">>} :
        Setup(FormsVault(Note(tags, <<>>, <<<<Link("b")>>>>), stat_raises),
              Request(c, d, f))

InitResolve ==
    \E item \in ResolveMenu, root_nested \in BOOLEAN, d \in {1, 2} :
        Setup(ResolveVault(item, root_nested), Request(NotePath("a"), d, <<>>))

Init == InitGraph \/ InitBig \/ InitForms \/ InitCenter \/ InitResolve

Start == pc = "start" /\ Becomes(StartCall(fs, request, call))

Iterate == pc = "loop" /\ LoopCondition(call) /\ Becomes(IterateCall(fs, request, call))

Finish == pc = "loop" /\ ~LoopCondition(call) /\ Becomes(FinishCall(request, call))

Next == Start \/ Iterate \/ Finish

Spec == Init /\ [][Next]_vars

\* A call that has not ended is run for one more step.  Start is enabled
\* when pc = "start", and when pc = "loop" exactly one of Iterate and Finish
\* is, so Resume is enabled exactly when Next is, and under [][Next]_vars a
\* step that satisfies Resume is a step of Next.
Resume == pc \in {"start", "loop"} /\ turn' = ~turn

\* The event loop runs the coroutine until it ends (asyncio runs a task that
\* is ready): weak fairness of its steps.
FairSpec == Spec /\ WF_turn(Resume)

\* ------------------------------------------------------------------------
\* Two calls interleaved at their await points on one event loop
\* ------------------------------------------------------------------------

\* Bound of the vaults the two calls are run on.
ConcEdges == 2

CallIds == {1, 2}

\* Mutant of Own: both calls use the structures of call 1, as if nodes_dict,
\* visited and queue were module-level objects.
Own_ModuleLevel(id) == 1

\* "nodes_dict: dict[str, GraphNode] = {}", "visited: set[str] = set()" and
\* "queue = deque(...)" are created inside the call: call id uses its own.
Own(id) == id

RequestOf(id) == IF id = 1 THEN request ELSE second[1].request

Locals(id) == IF id = 1 THEN call ELSE second[1].st

\* The state a call works on: its own position, read log and response, and
\* the three structures it uses.
View(id) ==
    [Locals(id) EXCEPT !.nodes_dict = Locals(Own(id)).nodes_dict,
                       !.visited = Locals(Own(id)).visited,
                       !.queue = Locals(Own(id)).queue]

\* The locals of call `other` after call id has moved to state st.
After(other, id, st) ==
    IF other = id THEN st
    ELSE IF Own(other) = Own(id)
         THEN [Locals(other) EXCEPT !.nodes_dict = st.nodes_dict,
                                    !.visited = st.visited,
                                    !.queue = st.queue]
         ELSE Locals(other)

InProgress(st) == st.pc \in {"loop", "reading"}

\* Call id runs up to its next await point or to its end; mixed records that
\* it ran while the other call was under way.
CommitStep(id, st) ==
    /\ pc' = After(1, id, st).pc
    /\ nodes_dict' = After(1, id, st).nodes_dict
    /\ visited' = After(1, id, st).visited
    /\ queue' = After(1, id, st).queue
    /\ reads' = After(1, id, st).reads
    /\ response' = After(1, id, st).response
    /\ turn' = ~turn
    /\ second' = <<[second[1] EXCEPT
                        !.st = After(2, id, st),
                        !.mixed = @ \/ \E other \in CallIds \ {id} :
                                            InProgress(Locals(other))]>>
    /\ UNCHANGED <<fs, request, org, fmgr, nmgr>>

StartOf(id) ==
    /\ View(id).pc = "start"
    /\ CommitStep(id, StartCall(fs, RequestOf(id), View(id)))

ReadOf(id) ==
    /\ View(id).pc = "loop"
    /\ LoopCondition(View(id))
    /\ CommitStep(id, ToAwait(fs, RequestOf(id), View(id)))

ParseOf(id) ==
    /\ View(id).pc = "reading"
    /\ CommitStep(id, FromAwait(fs, RequestOf(id), View(id)))

FinishOf(id) ==
    /\ View(id).pc = "loop"
    /\ ~LoopCondition(View(id))
    /\ CommitStep(id, FinishCall(RequestOf(id), View(id)))

\* Two calls about to be made on the same vault.
SetupTwo(vault, req1, req2) ==
    /\ fs = vault
    /\ request = req1
    /\ pc = InitCall.pc
    /\ nodes_dict = InitCall.nodes_dict
    /\ visited = InitCall.visited
    /\ queue = InitCall.queue
    /\ reads = InitCall.reads
    /\ response = InitCall.response
    /\ turn = FALSE
    /\ org = <<>> /\ fmgr = <<>> /\ nmgr = <<>>
    /\ second = <<[request |-> req2, st |-> InitCall, mixed |-> FALSE]>>

ConcVaults ==
    {E \in SUBSET (NameSet \X NameSet) : Cardinality(E) <= ConcEdges}

InitConc ==
    \E E \in ConcVaults, c \in {"a", "b", "missing"}, d \in {1, 2},
       f \in {<<>>, <<"project">>} :
        SetupTwo(GraphVault(E, IF f = <<>> THEN {} ELSE {"b"}, {}),
                 Request(NotePath("a"), 2, <<>>),
                 Request(NotePath(c), d, f))

\* The event loop runs one of the two coroutines up to its next await point.
\* (The code runs on from the end of one read to the next await without
\* yielding; the steps here are finer, which only adds interleavings.)
NextConc ==
    \E id \in CallIds : StartOf(id) \/ ReadOf(id) \/ ParseOf(id) \/ FinishOf(id)

ConcSpec == InitConc /\ [][NextConc]_vars

\* The call run alone from its first line to its end.
RECURSIVE RunLoop(_, _, _)
RunLoop(vault, req, st) ==
    IF LoopCondition(st) THEN RunLoop(vault, req, IterateCall(vault, req, st))
    ELSE FinishCall(req, st)

RunAlone(vault, req) ==
    LET started == StartCall(vault, req, InitCall)
    IN  IF started.pc = "raised" THEN started ELSE RunLoop(vault, req, started)

\* ------------------------------------------------------------------------
\* organize_vault_service (obsidian_vault_organizer/service.py)
\*
\* A request is a record [notes, operation, destination, tags_to_add,
\* tags_to_remove, require_confirmation, dry_run]; destination is <<>> for
\* None and <<path>> otherwise, and so is new_path in a result.  A message is
\* [dry_run |-> whether it starts with "[DRY RUN]", text |-> the rest, without
\* the paths it quotes].  The operations return [raised, disk, moves] and,
\* when they return normally, result; moves lists the shutil.move calls made.
\* ------------------------------------------------------------------------

\* Path.mkdir(parents=True, exist_ok=True); it raises when the path or one of
\* its parents is a file.
mkdir(disk, dir) ==
    LET d == resolve(dir)
        chain == {SubSeq(d, 1, k) : k \in 1..Len(d)}
    IN  IF chain \cap DOMAIN disk.files # {} THEN [raised |-> TRUE, disk |-> disk]
        ELSE [raised |-> FALSE, disk |-> [disk EXCEPT !.dirs = @ \cup chain]]

\* shutil.move(src, dst) of a file to a path where nothing exists.
shutil_move(disk, src, dst) ==
    [disk EXCEPT !.files =
        [p \in (DOMAIN disk.files \ {resolve(src)}) \cup {resolve(dst)} |->
            IF p = resolve(dst) THEN disk.files[resolve(src)] ELSE disk.files[p]]]

NoteOperationResult(path, success, dry, text, new_path) ==
    [path |-> path, success |-> success,
     message |-> [dry_run |-> dry, text |-> text], new_path |-> new_path]

_execute_move(disk, source, destination, note_path_str, dry_run) ==
    LET dest_dir == PathJoin(vault_root, destination)
        dest_path == Append(dest_dir, Last(source))
        relative_dest == relative_to(dest_path, vault_root)
        made == mkdir(disk, dest_dir)
    IN  IF dry_run
        THEN IF ~relative_dest.ok THEN [raised |-> TRUE, disk |-> disk, moves |-> <<>>]
             ELSE [raised |-> FALSE, disk |-> disk, moves |-> <<>>,
                   result |-> NoteOperationResult(note_path_str, TRUE, TRUE,
                                  "Would move to", <<relative_dest.path>>)]
        ELSE IF made.raised THEN [raised |-> TRUE, disk |-> disk, moves |-> <<>>]
        ELSE IF exists(made.disk, dest_path) = "yes"
             THEN [raised |-> FALSE, disk |-> made.disk, moves |-> <<>>,
                   result |-> NoteOperationResult(note_path_str, FALSE, FALSE,
                                  "Destination already exists", <<>>)]
        ELSE IF ~relative_dest.ok
             THEN [raised |-> TRUE, disk |-> shutil_move(made.disk, source, dest_path),
                   moves |-> <<<<source, resolve(dest_path)>>>>]
        ELSE [raised |-> FALSE, disk |-> shutil_move(made.disk, source, dest_path),
              moves |-> <<<<source, resolve(dest_path)>>>>,
              result |-> NoteOperationResult(note_path_str, TRUE, FALSE,
                             "Moved to", <<relative_dest.path>>)]

\* datetime.now().strftime("%Y-%m-%d") at the time of the call.
timestamp == <<"2026-11-04">>

_execute_archive(disk, source, note_path_str, destination, dry_run) ==
    LET archive_dir == IF destination = <<>>
                       THEN vault_root \o <<<<"archive">>, timestamp>>
                       ELSE PathJoin(vault_root, destination[1])
        archive_path == Append(archive_dir, Last(source))
        relative_archive == relative_to(archive_path, vault_root)
        made == mkdir(disk, archive_dir)
    IN  IF dry_run
        THEN IF ~relative_archive.ok THEN [raised |-> TRUE, disk |-> disk, moves |-> <<>>]
             ELSE [raised |-> FALSE, disk |-> disk, moves |-> <<>>,
                   result |-> NoteOperationResult(note_path_str, TRUE, TRUE,
                                  "Would archive to", <<relative_archive.path>>)]
        ELSE IF made.raised THEN [raised |-> TRUE, disk |-> disk, moves |-> <<>>]
        ELSE IF exists(made.disk, archive_path) = "yes"
             THEN IF ~relative_archive.ok
                  THEN [raised |-> TRUE, disk |-> made.disk, moves |-> <<>>]
                  ELSE [raised |-> FALSE, disk |-> made.disk, moves |-> <<>>,
                        result |-> NoteOperationResult(note_path_str, FALSE, FALSE,
                                       "Archive destination already exists", <<>>)]
        ELSE IF ~relative_archive.ok
             THEN [raised |-> TRUE, disk |-> shutil_move(made.disk, source, archive_path),
                   moves |-> <<<<source, resolve(archive_path)>>>>]
        ELSE [raised |-> FALSE, disk |-> shutil_move(made.disk, source, archive_path),
              moves |-> <<<<source, resolve(archive_path)>>>>,
              result |-> NoteOperationResult(note_path_str, TRUE, FALSE,
                             "Archived to", <<relative_archive.path>>)]

RECURSIVE RemoveTags(_, _)
\* "for tag in tags_to_remove: if tag in current_tags: current_tags.remove(tag)":
\* list.remove takes out the first occurrence.
RemoveTags(current_tags, tags_to_remove) ==
    IF tags_to_remove = <<>> THEN current_tags
    ELSE LET at == {k \in 1..Len(current_tags) : current_tags[k] = Head(tags_to_remove)}
         IN  RemoveTags(IF at = {} THEN current_tags
                        ELSE SubSeq(current_tags, 1, Min(at) - 1)
                             \o SubSeq(current_tags, Min(at) + 1, Len(current_tags)),
                        Tail(tags_to_remove))

\* The notes of the vaults used here have a frontmatter that parses.
_execute_tag(disk, file_path, note_path_str, tags_to_add, tags_to_remove, dry_run) ==
    IF dry_run
    THEN [raised |-> FALSE, disk |-> disk, moves |-> <<>>,
          result |-> NoteOperationResult(note_path_str, TRUE, TRUE, "Would add or remove tags", <<>>)]
    ELSE IF file_path \notin DOMAIN disk.files \/ file_path \in disk.unreadable
         THEN [raised |-> TRUE, disk |-> disk, moves |-> <<>>]
    ELSE LET current_tags == extract_frontmatter_safely(disk.files[file_path]).tags
             added == current_tags
                      \o Dedupe(SelectSeq(tags_to_add, LAMBDA t : t \notin Range(current_tags)), {})
         IN  [raised |-> FALSE, moves |-> <<>>,
              disk |-> [disk EXCEPT !.files[file_path].fm_tags =
                                        RemoveTags(added, tags_to_remove)],
              result |-> NoteOperationResult(note_path_str, TRUE, FALSE, "Tags updated", <<>>)]

_execute_delete(disk, file_path, note_path_str, require_confirmation, dry_run) ==
    IF dry_run
    THEN [raised |-> FALSE, disk |-> disk, moves |-> <<>>,
          result |-> NoteOperationResult(note_path_str, TRUE, TRUE, "Would delete this note", <<>>)]
    ELSE IF require_confirmation
         THEN [raised |-> FALSE, disk |-> disk, moves |-> <<>>,
               result |-> NoteOperationResult(note_path_str, FALSE, FALSE,
                              "DELETE requires confirmation", <<>>)]
    ELSE IF file_path \notin DOMAIN disk.files
         THEN [raised |-> TRUE, disk |-> disk, moves |-> <<>>]
    ELSE [raised |-> FALSE, moves |-> <<>>,
          disk |-> [disk EXCEPT !.files = [p \in DOMAIN disk.files \ {file_path} |->
                                              disk.files[p]]],
          result |-> NoteOperationResult(note_path_str, TRUE, FALSE, "Note deleted", <<>>)]

\* Mutant of _rollback_operations: only the last operation is undone.
_rollback_operations_LastOnly(disk, operations, k) ==
    IF k = 0 THEN [disk |-> disk, moves |-> <<>>]
    ELSE LET new_path == operations[k][2]
             original_path == operations[k][1]
         IN  IF new_path # <<>> /\ exists(disk, new_path) = "yes"
             THEN [disk |-> shutil_move(disk, new_path, original_path),
                   moves |-> <<<<new_path, original_path>>>>]
             ELSE [disk |-> disk, moves |-> <<>>]

RECURSIVE _rollback_operations(_, _, _)
\* "for original_path, new_path in reversed(operations)": from operations[k]
\* down to operations[1].
_rollback_operations(disk, operations, k) ==
    IF k = 0 THEN [disk |-> disk, moves |-> <<>>]
    ELSE LET new_path == operations[k][2]
             original_path == operations[k][1]
             undone == IF new_path # <<>> /\ exists(disk, new_path) = "yes"
                       THEN [disk |-> shutil_move(disk, new_path, original_path),
                             moves |-> <<<<new_path, original_path>>>>]
                       ELSE [disk |-> disk, moves |-> <<>>]
             rest == _rollback_operations(undone.disk, operations, k - 1)
         IN  [disk |-> rest.disk, moves |-> undone.moves \o rest.moves]

OrganizeResponse(req, results, total_succeeded, total_failed, rolled_back) ==
    [operation |-> req.operation, results |-> results,
     total_requested |-> Len(req.notes), total_succeeded |-> total_succeeded,
     total_failed |-> total_failed, rolled_back |-> rolled_back, dry_run |-> req.dry_run]

\* The state of a call: the request, the file system (disk) and the one the
\* call started from (disk0), the number i of notes taken from request.notes,
\* results, succeeded_operations, the log of shutil.move calls, pc ("loop" or
\* "done") and the response.
InitOrganize(disk, req) ==
    [request |-> req, disk |-> disk, disk0 |-> disk, i |-> 0, results |-> <<>>,
     succeeded_operations |-> <<>>, moves |-> <<>>, pc |-> "loop",
     response |-> <<>>]

\* The rollback and the early return (lines 130-146 and 166-181).
RolledBack(st, total_failed) ==
    LET back == _rollback_operations(st.disk, st.succeeded_operations,
                                     Len(st.succeeded_operations))
    IN  [st EXCEPT !.disk = back.disk, !.moves = @ \o back.moves, !.pc = "done",
                   !.response = <<OrganizeResponse(st.request, st.results, 0,
                                                   total_failed, TRUE)>>]

\* The except clause of the loop body (lines 148-181).
NoteRaised(st) ==
    LET req == st.request
        failed == [st EXCEPT !.results = Append(@,
                        NoteOperationResult(req.notes[st.i], FALSE, FALSE, "Error", <<>>))]
    IN  IF req.operation \in {"move", "archive"} /\ ~req.dry_run
           /\ st.succeeded_operations # <<>>
        THEN RolledBack(failed, Len(req.notes))
        ELSE failed

\* One iteration of "for note_path_str in request.notes" (lines 59-181).
ProcessNote(st) ==
    LET req == st.request
        note_path_str == req.notes[st.i + 1]
        taken == [st EXCEPT !.i = @ + 1]
        v == validate_vault_path(vault_root, note_path_str)
        full_path == v.path
        out == CASE req.operation = "move" ->
                        _execute_move(st.disk, full_path, req.destination[1],
                                      note_path_str, req.dry_run)
                 [] req.operation = "tag" ->
                        _execute_tag(st.disk, full_path, note_path_str,
                                     req.tags_to_add, req.tags_to_remove, req.dry_run)
                 [] req.operation = "archive" ->
                        _execute_archive(st.disk, full_path, note_path_str,
                                         req.destination, req.dry_run)
                 [] OTHER ->
                        _execute_delete(st.disk, full_path, note_path_str,
                                        req.require_confirmation, req.dry_run)
        ran == [taken EXCEPT !.disk = out.disk, !.moves = @ \o out.moves]
    IN  IF ~v.ok THEN NoteRaised(taken)
        ELSE IF ~is_path_allowed(full_path)
             THEN [taken EXCEPT !.results = Append(@,
                        NoteOperationResult(note_path_str, FALSE, FALSE, "Path not allowed", <<>>))]
        ELSE IF ~req.dry_run /\ exists(st.disk, full_path) # "yes"
             THEN [taken EXCEPT !.results = Append(@,
                        NoteOperationResult(note_path_str, FALSE, FALSE, "File not found", <<>>))]
        ELSE IF out.raised THEN NoteRaised(ran)
        ELSE LET result == out.result
                 added == [ran EXCEPT !.results = Append(@, result)]
             IN  IF result.success /\ ~req.dry_run
                 THEN [added EXCEPT !.succeeded_operations = Append(@,
                            <<full_path,
                              IF result.new_path # <<>>
                              THEN PathJoin(vault_root, result.new_path[1]) ELSE <<>>>>)]
                 ELSE IF req.operation \in {"move", "archive"} /\ ~req.dry_run
                         /\ ~result.success /\ st.succeeded_operations # <<>>
                      THEN RolledBack(added, Len(added.results))
                 ELSE added

\* "total_succeeded = sum(1 for r in results if r.success)",
\* "total_failed = len(results) - total_succeeded"
Totals(results) ==
    [total_succeeded |-> Len(SelectSeq(results, LAMBDA r : r.success)),
     total_failed |-> Len(results) - Len(SelectSeq(results, LAMBDA r : r.success))]

\* Lines 183-209: the response of a batch that was not rolled back.
CompleteBatch(st) ==
    [st EXCEPT !.pc = "done",
               !.response = <<OrganizeResponse(st.request, st.results,
                                  Totals(st.results).total_succeeded,
                                  Totals(st.results).total_failed, FALSE)>>]

\* Bound of the batches: the greatest number of notes in a request.
MaxNotes == 3

\* The vault of the batches: two notes at the root, one of them tagged, a
\* note with the name of the first in a folder, a note in a blocked
\* directory, and a file next to the vault.
OrganizeVault ==
    FileSystem((NoteFile("a") :> Note(<<"project">>, <<>>, <<>>))
               @@ (NoteFile("b") :> EmptyNote)
               @@ (InVault(<<<<"sub">>, <<"a", ".md">>>>) :> EmptyNote)
               @@ (InVault(<<<<".obsidian">>, <<"c", ".md">>>>) :> EmptyNote)
               @@ (<<ROOT, <<"outside", ".md">>>> :> EmptyNote),
               BaseDirs \cup {InVault(<<<<"sub">>>>), InVault(<<<<".obsidian">>>>)},
               {}, <<>>, TRUE)

\* The notes a batch is made of: existing, sharing a name, missing, blocked
\* and outside the vault.
NoteMenu ==
    {NotePath("a"), NotePath("b"), <<<<"sub">>, <<"a", ".md">>>>, NotePath("missing"),
     <<<<".obsidian">>, <<"c", ".md">>>>, <<DOTDOT, <<"outside", ".md">>>>}

\* The requests: every operation, dry-run or not; MOVE into a new folder, an
\* existing folder, the vault root, a file, and out of the vault (relative
\* and absolute); ARCHIVE with and without a destination.
OrganizeRequests(notes) ==
    LET Req(op, dest, confirm, dry) ==
            [notes |-> notes, operation |-> op, destination |-> dest,
             tags_to_add |-> <<"x">>, tags_to_remove |-> <<"project">>,
             require_confirmation |-> confirm, dry_run |-> dry]
    IN  {Req("move", <<dest>>, TRUE, dry) :
            dest \in {<<<<"dest">>>>, <<<<"sub">>>>, <<DOT>>, NotePath("b"),
                      <<DOTDOT, <<"out">>>>, <<ROOT, <<"out">>>>},
            dry \in BOOLEAN}
        \cup {Req("archive", arch, TRUE, dry) :
                arch \in {<<>>, <<<<<<"dest">>>>>>}, dry \in BOOLEAN}
        \cup {Req("tag", <<>>, TRUE, dry) : dry \in BOOLEAN}
        \cup {Req("delete", <<>>, confirm, dry) : confirm \in BOOLEAN, dry \in BOOLEAN}

InitOrganizer ==
    /\ \E k \in 1..MaxNotes : \E notes \in [1..k -> NoteMenu] :
          \E req \in OrganizeRequests(notes) : org = InitOrganize(OrganizeVault, req)
    /\ fs = OrganizeVault
    /\ request = Request(NotePath("a"), 1, <<>>)
    /\ pc = "done"
    /\ nodes_dict = <<>> /\ visited = {} /\ queue = <<>> /\ reads = <<>>
    /\ response = [kind |-> "none"]
    /\ turn = FALSE
    /\ second = <<>> /\ fmgr = <<>> /\ nmgr = <<>>

NextNote ==
    /\ org.pc = "loop" /\ org.i < Len(org.request.notes)
    /\ org' = ProcessNote(org)
    /\ UNCHANGED <<fs, request, pc, nodes_dict, visited, queue, reads, response, turn,
                   second, fmgr, nmgr>>

Complete ==
    /\ org.pc = "loop" /\ org.i = Len(org.request.notes)
    /\ org' = CompleteBatch(org)
    /\ UNCHANGED <<fs, request, pc, nodes_dict, visited, queue, reads, response, turn,
                   second, fmgr, nmgr>>

OrganizerSpec == InitOrganizer /\ [][NextNote \/ Complete]_vars

\* ------------------------------------------------------------------------
\* manage_folder_service, operation MOVE (obsidian_folder_manager/service.py)
\*
\* A request is [path, destination, dry_run]; update_wikilinks is False, so
\* no note is rewritten after the move.  The call gives [kind, disk]: kind is
\* "returned" (a FolderOperationResult with success=True) or the name of the
\* exception raised.
\* ------------------------------------------------------------------------

\* is_critical_folder(path, vault_root): the vault root, or a path whose
\* first part below the vault root is in CRITICAL_FOLDERS.
is_critical_folder(path) ==
    \/ path = vault_root
    \/ /\ relative_to(path, vault_root).ok
       /\ relative_to(path, vault_root).path # <<>>
       /\ relative_to(path, vault_root).path[1] \in BLOCKED_PATTERNS

\* shutil.move(src, dst) of a directory to a path where nothing exists: the
\* directory and all it holds are renamed; shutil.Error when dst lies in src.
move_tree(disk, src, dst) ==
    LET Moved(p) == IF IsPrefix(src, p) THEN dst \o SubSeq(p, Len(src) + 1, Len(p)) ELSE p
    IN  IF IsPrefix(src, dst) THEN [kind |-> "Error", disk |-> disk]
        ELSE [kind |-> "returned",
              disk |-> [disk EXCEPT
                  !.dirs = {Moved(p) : p \in disk.dirs},
                  !.files = [q \in {Moved(p) : p \in DOMAIN disk.files} |->
                                disk.files[CHOOSE p \in DOMAIN disk.files : Moved(p) = q]]]]

\* Lines 304-311: "raise ValueError(msg)" stands inside the try whose
\* "except ValueError: pass" then catches it, as it catches the ValueError
\* of relative_to: the function goes on in both cases.
CircularMoveRejected(dest_path, full_path) ==
    relative_to(dest_path, full_path).ok /\ FALSE

_move_folder(disk, full_path, req) ==
    LET dest == validate_vault_path(vault_root, req.destination)
        dest_path == dest.path
        final_dest == Append(dest_path, Last(full_path))
        made == mkdir(disk, dest_path)
    IN  IF exists(disk, full_path) # "yes" THEN [kind |-> "FileNotFoundError", disk |-> disk]
        ELSE IF full_path \notin disk.dirs THEN [kind |-> "ValueError", disk |-> disk]
        ELSE IF ~dest.ok THEN [kind |-> "SecurityError", disk |-> disk]
        ELSE IF CircularMoveRejected(dest_path, full_path)
             THEN [kind |-> "ValueError", disk |-> disk]
        ELSE IF exists(disk, final_dest) = "yes" THEN [kind |-> "ValueError", disk |-> disk]
        ELSE IF req.dry_run THEN [kind |-> "returned", disk |-> disk]
        ELSE IF made.raised THEN [kind |-> "FileExistsError", disk |-> disk]
        ELSE move_tree(made.disk, full_path, final_dest)

\* Lines 56-98 for a MOVE request.
manage_folder_service(disk, req) ==
    LET v == validate_vault_path(vault_root, req.path)
    IN  IF ~v.ok THEN [kind |-> "SecurityError", disk |-> disk]
        ELSE IF is_critical_folder(v.path) THEN [kind |-> "ValueError", disk |-> disk]
        ELSE _move_folder(disk, v.path, req)

\* The vault of the folder moves: a folder with a note and a subfolder, a
\* second folder, and the configuration folder.
FolderVault ==
    FileSystem((InVault(<<<<"parent">>, <<"n", ".md">>>>) :> EmptyNote),
               BaseDirs \cup {InVault(<<<<"parent">>>>), InVault(<<<<"parent">>, <<"child">>>>),
                              InVault(<<<<"other">>>>), InVault(<<<<".obsidian">>>>)},
               {}, <<>>, TRUE)

FolderRequests ==
    {[path |-> p, destination |-> d, dry_run |-> dry] :
        p \in {<<<<"parent">>>>, <<<<"parent">>, <<"child">>>>, <<<<"other">>>>,
               <<<<"missing">>>>, <<<<"parent">>, <<"n", ".md">>>>, <<<<".obsidian">>>>,
               <<DOT>>},
        d \in {<<<<"parent">>>>, <<<<"parent">>, <<"child">>>>,
               <<<<"parent">>, <<"child">>, <<"new">>>>, <<<<"parent">>, <<"new">>>>,
               <<<<"parent">>, DOTDOT, <<"parent">>>>, <<<<"other">>>>,
               <<<<"other">>, <<"new">>>>, <<DOT>>, <<DOTDOT, <<"out">>>>,
               <<<<"parent">>, <<"n", ".md">>>>},
        dry \in BOOLEAN}

InitFolder ==
    /\ \E req \in FolderRequests :
          fmgr = [request |-> req, disk |-> FolderVault, disk0 |-> FolderVault,
                  kind |-> "called"]
    /\ fs = FolderVault
    /\ request = Request(NotePath("a"), 1, <<>>)
    /\ pc = "done"
    /\ nodes_dict = <<>> /\ visited = {} /\ queue = <<>> /\ reads = <<>>
    /\ response = [kind |-> "none"]
    /\ turn = FALSE
    /\ second = <<>> /\ org = <<>> /\ nmgr = <<>>

MoveFolder ==
    /\ fmgr.kind = "called"
    /\ fmgr' = [fmgr EXCEPT
                    !.kind = manage_folder_service(fmgr.disk, fmgr.request).kind,
                    !.disk = manage_folder_service(fmgr.disk, fmgr.request).disk]
    /\ UNCHANGED <<fs, request, pc, nodes_dict, visited, queue, reads, response, turn,
                   second, org, nmgr>>

FolderSpec == InitFolder /\ [][MoveFolder]_vars

\* ------------------------------------------------------------------------
\* manage_note_service, operation PATCH (obsidian_note_manager/service.py)
\*
\* The text of a note is a sequence of tokens: FENCE is a "---" line, "k" a
\* line of front matter, NL white space, and "a", "b", "c" characters of the
\* body.  A request is [path, find_replace, replace_all]; find_replace is
\* <<>> (None) or <<find_text, replace_text>>.  The call gives
\* [kind, disk, writes, response]: kind is "returned" or the name of the
\* exception raised, writes counts the openings of the file for writing.
\* ------------------------------------------------------------------------

FENCE == "-"

NL == "\n"

\* str.strip(): white space removed at both ends.
RECURSIVE strip(_)
strip(s) ==
    IF s = <<>> THEN s
    ELSE IF s[1] = NL THEN strip(Tail(s))
    ELSE IF Last(s) = NL THEN strip(SubSeq(s, 1, Len(s) - 1))
    ELSE s

\* str.count(sub): the matches found from left to right, none overlapping
\* another; the empty string is found len(s) + 1 times.
RECURSIVE CountFrom(_, _, _)
CountFrom(s, sub, i) ==
    IF i + Len(sub) - 1 > Len(s) THEN 0
    ELSE IF SubSeq(s, i, i + Len(sub) - 1) = sub
         THEN 1 + CountFrom(s, sub, i + Len(sub))
    ELSE CountFrom(s, sub, i + 1)

str_count(s, sub) == IF sub = <<>> THEN Len(s) + 1 ELSE CountFrom(s, sub, 1)

\* str.replace(old, new, count): the first `count` matches replaced, all of
\* them when count is -1; the empty string matches before every character
\* and at the end.
RECURSIVE ReplaceFrom(_, _, _, _, _)
ReplaceFrom(s, old, new, i, left) ==
    IF left = 0 THEN SubSeq(s, i, Len(s))
    ELSE IF old = <<>>
         THEN IF i > Len(s) THEN new
              ELSE new \o <<s[i]>> \o ReplaceFrom(s, old, new, i + 1, left - 1)
    ELSE IF i + Len(old) - 1 > Len(s) THEN SubSeq(s, i, Len(s))
    ELSE IF SubSeq(s, i, i + Len(old) - 1) = old
         THEN new \o ReplaceFrom(s, old, new, i + Len(old), left - 1)
    ELSE <<s[i]>> \o ReplaceFrom(s, old, new, i + 1, left)

str_replace(s, old, new, count) == ReplaceFrom(s, old, new, 1, count)

\* extract_frontmatter_safely(content) over the tokens of a text:
\* frontmatter.loads strips the text; a text that opens with a fence and
\* holds a second one gives the lines between them as metadata and the
\* stripped rest as body; any other text gives no metadata and the stripped
\* text as body.
frontmatter_loads(content) ==
    LET text == strip(content)
        Closing == {j \in 2..Len(text) : text[j] = FENCE}
        close == CHOOSE j \in Closing : \A k \in Closing : j <= k
    IN  IF text # <<>> /\ text[1] = FENCE /\ Closing # {}
        THEN [metadata |-> SubSeq(text, 2, close - 1),
              body |-> strip(SubSeq(text, close + 1, Len(text)))]
        ELSE [metadata |-> <<>>, body |-> text]

\* frontmatter.dumps(frontmatter.Post(body, **metadata)): the metadata
\* between two fences, then the body.
frontmatter_dumps(metadata, body) == <<FENCE>> \o metadata \o <<FENCE>> \o body

ManageNoteResponse(success, match_count, text) ==
    <<[success |-> success, operation |-> "patch", match_count |-> match_count,
       message |-> text]>>

NoteCall(kind, disk, writes, result) ==
    [kind |-> kind, disk |-> disk, writes |-> writes, response |-> result]

\* Mutant of _patch_note: the safety check of lines 266-277 is left out.
_patch_note_NoSafetyCheck(disk, full_path, req) ==
    LET find_text == req.find_replace[1]
        replace_text == req.find_replace[2]
        parsed == frontmatter_loads(disk.files[full_path])
        occurrence_count == str_count(parsed.body, find_text)
        updated_body == str_replace(parsed.body, find_text, replace_text,
                                    IF req.replace_all THEN -1 ELSE 1)
    IN  IF exists(disk, full_path) # "yes"
        THEN NoteCall("FileNotFoundError", disk, 0, <<>>)
        ELSE IF req.find_replace = <<>> THEN NoteCall("ValueError", disk, 0, <<>>)
        ELSE IF full_path \in disk.dirs THEN NoteCall("IsADirectoryError", disk, 0, <<>>)
        ELSE IF occurrence_count = 0
             THEN NoteCall("returned", disk, 0,
                           ManageNoteResponse(FALSE, 0, "No matches found"))
        ELSE NoteCall("returned",
                      [disk EXCEPT !.files[full_path] =
                          frontmatter_dumps(parsed.metadata, updated_body)],
                      1,
                      ManageNoteResponse(TRUE, occurrence_count, "Patched note"))

\* Lines 237-316.
_patch_note(disk, full_path, req) ==
    LET find_text == req.find_replace[1]
        replace_text == req.find_replace[2]
        parsed == frontmatter_loads(disk.files[full_path])
        occurrence_count == str_count(parsed.body, find_text)
        updated_body == str_replace(parsed.body, find_text, replace_text,
                                    IF req.replace_all THEN -1 ELSE 1)
    IN  IF exists(disk, full_path) # "yes"
        THEN NoteCall("FileNotFoundError", disk, 0, <<>>)
        ELSE IF req.find_replace = <<>> THEN NoteCall("ValueError", disk, 0, <<>>)
        ELSE IF full_path \in disk.dirs THEN NoteCall("IsADirectoryError", disk, 0, <<>>)
        ELSE IF occurrence_count = 0
             THEN NoteCall("returned", disk, 0,
                           ManageNoteResponse(FALSE, 0, "No matches found"))
        ELSE IF occurrence_count > 1 /\ ~req.replace_all
             THEN NoteCall("returned", disk, 0,
                           ManageNoteResponse(FALSE, occurrence_count,
                                              "Set replace_all=true"))
        ELSE NoteCall("returned",
                      [disk EXCEPT !.files[full_path] =
                          frontmatter_dumps(parsed.metadata, updated_body)],
                      1,
                      ManageNoteResponse(TRUE, occurrence_count, "Patched note"))

\* Lines 55-103 for a PATCH request.
manage_note_service(disk, req) ==
    LET v == validate_vault_path(vault_root, req.path)
    IN  IF ~v.ok THEN NoteCall("SecurityError", disk, 0, <<>>)
        ELSE IF ~is_path_allowed(v.path) THEN NoteCall("ValueError", disk, 0, <<>>)
        ELSE _patch_note(disk, v.path, req)

\* The longest note body of the patched notes.
MaxBody == 3

Strings(alphabet, n) == UNION {[1..k -> alphabet] : k \in 0..n}

\* The texts of the patched note: a body of "a" and "b", with or without
\* front matter, with or without a final newline.
NoteTexts ==
    {head \o body \o tail :
        head \in {<<>>, <<FENCE, "k", FENCE>>},
        body \in Strings({"a", "b"}, MaxBody),
        tail \in {<<>>, <<NL>>}}

NoteVault(text) ==
    FileSystem((InVault(NotePath("patch")) :> text)
                   @@ (InVault(<<<<".obsidian">>, <<"c", ".md">>>>) :> text),
               BaseDirs \cup {InVault(<<<<"folder">>>>), InVault(<<<<".obsidian">>>>)},
               {}, <<>>, TRUE)

PatchRequests ==
    {[path |-> p, find_replace |-> fr, replace_all |-> all] :
        p \in {NotePath("patch"), NotePath("missing"), <<<<"folder">>>>,
               <<<<".obsidian">>, <<"c", ".md">>>>, <<DOTDOT, <<"patch", ".md">>>>},
        fr \in {<<>>} \cup
               {<<f, r>> : f \in Strings({"a", "b"}, 2), r \in {<<>>, <<"a">>, <<"c">>}},
        all \in BOOLEAN}

InitNote ==
    /\ \E text \in NoteTexts, req \in PatchRequests :
          nmgr = [request |-> req, disk |-> NoteVault(text), disk0 |-> NoteVault(text),
                  writes |-> 0, kind |-> "called", response |-> <<>>]
    /\ fs = NoteVault(<<>>)
    /\ request = Request(NotePath("a"), 1, <<>>)
    /\ pc = "done"
    /\ nodes_dict = <<>> /\ visited = {} /\ queue = <<>> /\ reads = <<>>
    /\ response = [kind |-> "none"]
    /\ turn = FALSE
    /\ second = <<>> /\ org = <<>> /\ fmgr = <<>>

PatchNote ==
    /\ nmgr.kind = "called"
    /\ nmgr' = [nmgr EXCEPT
                    !.kind = manage_note_service(nmgr.disk, nmgr.request).kind,
                    !.disk = manage_note_service(nmgr.disk, nmgr.request).disk,
                    !.writes = manage_note_service(nmgr.disk, nmgr.request).writes,
                    !.response = manage_note_service(nmgr.disk, nmgr.request).response]
    /\ UNCHANGED <<fs, request, pc, nodes_dict, visited, queue, reads, response, turn,
                   second, org, fmgr>>

NoteSpec == InitNote /\ [][PatchNote]_vars

\* ------------------------------------------------------------------------
\* Properties
\* ------------------------------------------------------------------------

Returned == IF response.kind = "response" THEN response.nodes ELSE <<>>

ReturnedPaths == {Returned[i].path : i \in 1..Len(Returned)}

Links(node) == Range(node.outbound_links)

\* C1: a call whose center note exists (the call entered the while loop)
\* terminates: the loop is left and a response is returned, whatever the
\* vault (cycles and self-links included), the depth and the tag filter.
C1_Terminates == (pc = "loop") ~> (pc = "done" /\ response.kind = "response")

\* A finished call at depth 3 over a vault with a cycle of two notes.
C1_Witness ==
    /\ pc = "done"
    /\ request.depth = 3
    /\ \E i, j \in 1..Len(Returned) :
          /\ i # j
          /\ Returned[j].path \in Links(Returned[i])
          /\ Returned[i].path \in Links(Returned[j])

\* C2: the node map never holds more than MAX_NODES nodes, and the response
\* has total_nodes = len(nodes) <= MAX_NODES.
C2_NodeCap ==
    /\ Len(nodes_dict) <= MAX_NODES
    /\ pc = "done" =>
          /\ response.total_nodes = Len(response.nodes)
          /\ response.total_nodes <= MAX_NODES

\* A response with MAX_NODES nodes from a vault that holds more notes, the
\* queue still holding entries.
C2_Witness ==
    /\ pc = "done"
    /\ response.total_nodes = MAX_NODES
    /\ Cardinality(DOMAIN fs.files) > MAX_NODES
    /\ queue # <<>>

\* What processing the note at `path` gives, computed from the vault alone:
\* whether it can be read, whether one of its links makes the resolver raise,
\* and the targets its links resolve to.
CanRead(path) == ReadNote(fs, path).kind = "ok"

LinksOf(path) ==
    ProcessLinks(fs, extract_wikilinks(ReadNote(fs, path).content), 0, request)

\* A note is unreadable when reading or processing it raises: the path is
\* refused, the file is missing or cannot be opened, or a link of it makes
\* the resolver raise.
Unreadable(path) == ~CanRead(path) \/ LinksOf(path).raised

\* The tags of the note as written in the file (front matter and inline),
\* read from the vault and not through get_all_tags.
WrittenTags(path) ==
    (IF ReadNote(fs, path).content.fm_valid
     THEN Range(ReadNote(fs, path).content.fm_tags) ELSE {})
    \cup Range(ReadNote(fs, path).content.inline_tags)

HasFilterTag(path) == \E t \in Range(request.filter_tags) : t \in WrittenTags(path)

HasCenter ==
    \E i \in 1..Len(Returned) :
        Returned[i].path = request.center_note /\ Returned[i].depth = 0

C4_InboundOutbound ==
    /\ pc = "done" =>
          /\ \A a, b \in 1..Len(Returned) :
                (Returned[b].path \in Links(Returned[a]))
                    <=> (Returned[a].path \in Range(Returned[b].inbound_links))
          /\ \A b \in 1..Len(Returned) :
                Range(Returned[b].inbound_links) \subseteq ReturnedPaths
    /\ pc # "done" =>
          \A i \in 1..Len(nodes_dict) : nodes_dict[i].inbound_links = <<>>

\* A response with a chain A -> B -> C of returned nodes where A does not
\* link to C (and is not in C's inbound links), and A has a link to a note
\* that was not returned.
C4_Witness ==
    /\ pc = "done"
    /\ \E a, b, c \in 1..Len(Returned) :
          /\ a # b /\ b # c /\ a # c
          /\ Returned[b].path \in Links(Returned[a])
          /\ Returned[c].path \in Links(Returned[b])
          /\ Returned[c].path \notin Links(Returned[a])
          /\ Returned[a].path \notin Range(Returned[c].inbound_links)
          /\ Returned[a].path \in Range(Returned[b].inbound_links)
          /\ ~(Links(Returned[a]) \subseteq ReturnedPaths)

\* C5 as stated: every returned node of depth d > 0 has a returned node of
\* depth d-1 that links to it, unless the response says truncated.
C5_ParentReturned ==
    (pc = "done" /\ ~response.truncated) =>
        \A i \in 1..Len(Returned) :
            Returned[i].depth > 0 =>
                \E j \in 1..Len(Returned) :
                    /\ Returned[j].depth = Returned[i].depth - 1
                    /\ Returned[i].path \in Links(Returned[j])

\* The length of the shortest chain of links from the center note to
\* `target` through returned nodes, -1 when there is none: `frontier` holds
\* the returned paths at distance d, `seen` those at distance <= d.
RECURSIVE ChainLength(_, _, _, _)
ChainLength(target, frontier, seen, d) ==
    IF target \in frontier THEN d
    ELSE IF frontier = {} THEN -1
    ELSE LET next == {p \in ReturnedPaths \ seen :
                        \E i \in 1..Len(Returned) :
                            Returned[i].path \in frontier /\ p \in Links(Returned[i])}
         IN  ChainLength(target, next, seen \cup next, d + 1)

ChainFromCenter(target) ==
    ChainLength(target, {request.center_note} \cap ReturnedPaths,
                {request.center_note} \cap ReturnedPaths, 0)

\* Each path is read at most once, and a node has the depth of the one
\* dequeue that read it.
ProcessedOnce ==
    /\ \A i, j \in 1..Len(reads) : reads[i].path = reads[j].path => i = j
    /\ {reads[i].path : i \in 1..Len(reads)} \subseteq visited
    /\ \A n \in 1..Len(nodes_dict) :
          \E i \in 1..Len(reads) :
              reads[i].path = nodes_dict[n].path /\ reads[i].depth = nodes_dict[n].depth

\* C6 as stated: each path is processed at most once, and the depth of a
\* returned node is that of its one dequeue, which is the length of the
\* shortest chain of links from the center through returned nodes.
C6_ShortestChain ==
    /\ ProcessedOnce
    /\ pc = "done" =>
          \A i \in 1..Len(Returned) : Returned[i].depth = ChainFromCenter(Returned[i].path)

\* C7 as stated: truncated is True iff the loop stopped at the cap with
\* entries left in the queue; a traversal whose queue drained says False.
C7_TruncatedIff ==
    pc = "done" =>
        (response.truncated <=> (Len(nodes_dict) >= MAX_NODES /\ queue # <<>>))

\* The notes reachable from the center within `d` more links, each note
\* named by its resolved file: links are followed from the notes that can
\* be processed (read without raising).
RECURSIVE ReachableNotes(_, _, _)
ReachableNotes(frontier, seen, d) ==
    LET here == {p \in frontier : ~Unreadable(p)}
        files == {ReadNote(fs, p).full_path : p \in here}
        next == UNION {Range(LinksOf(p).targets) : p \in here} \ seen
    IN  IF d = 0 \/ next = {} THEN files
        ELSE files \cup ReachableNotes(next, seen \cup next, d - 1)

ReachableFromCenter ==
    ReachableNotes({request.center_note}, {request.center_note}, request.depth)

\* C8: without a tag filter, when more than MAX_NODES distinct readable
\* notes are reachable from the center within the requested depth, the
\* response has exactly MAX_NODES nodes and truncated = True.
C8_CapReached ==
    (/\ pc = "done"
     /\ request.filter_tags = <<>>
     /\ Cardinality(ReachableFromCenter) > MAX_NODES)
    => (/\ response.total_nodes = MAX_NODES
        /\ Len(response.nodes) = MAX_NODES
        /\ response.truncated)

\* A truncated response at depth 3 over a vault where more than MAX_NODES
\* notes are reachable from the center.
C8_Witness ==
    /\ pc = "done"
    /\ request.filter_tags = <<>>
    /\ request.depth = 3
    /\ Cardinality(ReachableFromCenter) > MAX_NODES
    /\ response.total_nodes = MAX_NODES
    /\ response.truncated

\* The call of the cycle scenario: a.md -> b.md -> c.md -> a.md, analysed
\* from a.md with depth 3 and no tag filter.
CycleEdges == {<<"a", "b">>, <<"b", "c">>, <<"c", "a">>}

CycleCall ==
    /\ fs = GraphVault(CycleEdges, {}, {})
    /\ request = Request(NotePath("a"), 3, <<>>)

\* C9: the cycle call raises no error and returns exactly 3 nodes, one for
\* each note, each note read once, with truncated = False; and in every
\* response no path is the path of more than one node.
C9_Cycle ==
    /\ CycleCall =>
          /\ pc # "raised"
          /\ pc = "done" =>
                /\ Len(response.nodes) = 3
                /\ response.total_nodes = 3
                /\ ReturnedPaths = {NotePath(n) : n \in NameSet}
                /\ Len(reads) = 3
                /\ ~response.truncated
    /\ \A i, j \in 1..Len(Returned) : Returned[i].path = Returned[j].path => i = j

\* The cycle call has returned.
C9_Witness == CycleCall /\ pc = "done" /\ Len(Returned) = 3

\* One step read a note none of whose tags is in a non-empty filter_tags.
ReadsFiltered ==
    /\ Len(reads') = Len(reads) + 1
    /\ request.filter_tags # <<>>
    /\ ~HasFilterTag(Last(reads').path)

AllNodesMatch ==
    (pc = "done" /\ request.filter_tags # <<>>) =>
        \A i \in 1..Len(Returned) :
            \E t \in Range(request.filter_tags) : t \in Range(Returned[i].tags)

\* C10: with a non-empty filter_tags, the step that reads a note with none
\* of the filter tags adds no node and enqueues nothing (it only removes the
\* head of the queue), and every node of a response has a filter tag.
C10_FilterPrunes ==
    [][/\ ReadsFiltered => (queue' = Tail(queue) /\ nodes_dict' = nodes_dict)
       /\ AllNodesMatch']_vars

\* A response under a tag filter where a read note without the tag links to
\* a tagged note of the vault that was neither read nor returned.
C10_Witness ==
    /\ pc = "done"
    /\ request.filter_tags # <<>>
    /\ HasCenter
    /\ \E i \in 1..Len(reads) :
          /\ ~HasFilterTag(reads[i].path)
          /\ \E p \in Range(LinksOf(reads[i].path).targets) :
                /\ CanRead(p) /\ HasFilterTag(p)
                /\ p \notin ReturnedPaths
                /\ p \notin visited

\* The [[...]] items of the note at `path` as written, in reading order.
ItemsOf(path) == Flatten(ReadNote(fs, path).content.lines)

\* The note holds only embeds: every item of it is preceded by "!".
OnlyEmbeds(path) == \A k \in 1..Len(ItemsOf(path)) : ItemsOf(path)[k].bang

\* C11 as stated: an embed, in any of its forms, gives no outbound_links
\* entry and no queue entry: a node whose note holds only embeds has no
\* outbound links, and when the center note holds only embeds nothing but
\* the seed is ever queued.
C11_EmbedNoEdge ==
    /\ \A n \in 1..Len(nodes_dict) :
          OnlyEmbeds(nodes_dict[n].path) => nodes_dict[n].outbound_links = <<>>
    /\ (pc \in {"loop", "done"} /\ CanRead(request.center_note)
            /\ OnlyEmbeds(request.center_note))
       => \A q \in 1..Len(queue) : queue[q].depth = 0

\* The center note names a place inside the vault where no file is.
CenterMissing ==
    /\ validate_vault_path(vault_root, request.center_note).ok
    /\ exists(fs, validate_vault_path(vault_root, request.center_note).path) # "yes"

\* C12 as stated: when the center note does not exist in the vault the call
\* fails with FileNotFoundError, with no traversal state built, no note
\* read and no response.
C12_NotFound ==
    (CenterMissing /\ pc # "start") =>
        /\ pc = "raised"
        /\ response.kind = "FileNotFoundError"
        /\ nodes_dict = <<>> /\ visited = {} /\ queue = <<>> /\ reads = <<>>

\* The note at `path` cannot be read or parsed, judged from the vault: the
\* path is refused, no file is there, the read fails, or the frontmatter
\* is malformed.
NoteProblem(path) ==
    LET v == validate_vault_path(vault_root, path)
    IN  \/ ~v.ok
        \/ v.path \notin DOMAIN fs.files
        \/ v.path \in fs.unreadable
        \/ ~fs.files[v.path].fm_valid

\* One step takes `path` from the head of the queue and marks it visited.
Visits(path) ==
    /\ pc = "loop" /\ queue # <<>>
    /\ Head(queue).path = path
    /\ path \notin visited /\ path \in visited'

\* C13 as stated: the step that processes a note that cannot be read or
\* parsed adds no node and queues none of its links, and the traversal goes
\* on with the rest of the queue.
C13_UnreadableDropped ==
    [][\A q \in 1..Len(queue) :
          (q = 1 /\ Visits(queue[q].path) /\ NoteProblem(queue[q].path)) =>
              /\ nodes_dict' = nodes_dict
              /\ queue' = Tail(queue)
              /\ pc' = "loop"]_vars

\* The resolved targets of the non-embed items of the note at `path`, in
\* the order in which the items stand in the text; an item that resolves to
\* nothing gives no entry.
TargetsInTextOrder(path) ==
    Flatten([k \in 1..Len(ItemsOf(path)) |->
                IF ~ItemsOf(path)[k].bang
                   /\ _resolve_wikilink(fs, ItemsOf(path)[k].target).kind = "path"
                THEN <<_resolve_wikilink(fs, ItemsOf(path)[k].target).path>>
                ELSE <<>>])

\* C14 as stated: the outbound_links of every node are the resolved targets
\* of its non-embed wikilinks in their order of appearance in the text,
\* duplicates kept.
C14_SourceOrder ==
    \A n \in 1..Len(nodes_dict) :
        nodes_dict[n].outbound_links = TargetsInTextOrder(nodes_dict[n].path)

\* The three direct forms of a target, in the order tried: "{target}.md",
\* "{target}", "{last segment}.md".
DirectForms(target) == <<WithMd(target), target, WithMd(<<Last(target)>>)>>

\* The i-th direct form names an existing file that the policy allows.
DirectHit(target, i) ==
    /\ exists(fs, PathJoin(vault_root, DirectForms(target)[i])) = "yes"
    /\ is_path_allowed(PathJoin(vault_root, DirectForms(target)[i]))

\* The allowed markdown files below the vault whose stem is `wanted`, as
\* vault-relative paths.
ScanMatches(wanted) ==
    {relative_to(f, vault_root).path :
        f \in {g \in DOMAIN fs.files :
                 /\ IsPrefix(vault_root, g) /\ Len(g) > Len(vault_root)
                 /\ Last(Last(g)) = ".md"
                 /\ stem(g) = wanted
                 /\ is_path_allowed(g)}}

\* `links` is what resolving `target` by the stated order gives: the first
\* direct form that hits and, only when none of the three hits, a file of
\* the scan with the stem `wanted` (no entry when there is none).
ResolvedInOrder(target, wanted, links) ==
    IF \E i \in 1..3 : DirectHit(target, i)
    THEN links = <<relative_to(PathJoin(vault_root,
                        DirectForms(target)[Min({i \in 1..3 : DirectHit(target, i)})]),
                               vault_root).path>>
    ELSE IF ScanMatches(wanted) = {} THEN links = <<>>
    ELSE Len(links) = 1 /\ links[1] \in ScanMatches(wanted)

\* The returned nodes whose note holds one link that is no embed.
OneLinkNodes ==
    {n \in 1..Len(Returned) :
        /\ Len(ItemsOf(Returned[n].path)) = 1
        /\ ~ItemsOf(Returned[n].path)[1].bang}

\* C15 as stated: the three direct forms are tried in order and the first
\* that exists and is allowed is returned; only when none matches is the
\* vault scanned, for a markdown file whose stem equals the last segment of
\* the target.
C15_LastSegmentStem ==
    \A n \in OneLinkNodes :
        ResolvedInOrder(ItemsOf(Returned[n].path)[1].target,
                        Last(ItemsOf(Returned[n].path)[1].target),
                        Returned[n].outbound_links)

\* C15, amended: the same order, and the scan looks for a markdown file
\* whose stem equals the last segment of the target with ".md" removed
\* from it.
C15_ResolutionOrder ==
    \A n \in OneLinkNodes :
        ResolvedInOrder(ItemsOf(Returned[n].path)[1].target,
                        target_stem(ItemsOf(Returned[n].path)[1].target),
                        Returned[n].outbound_links)

\* A response where [[sub/nested]] resolved to sub/nested.md in a vault with
\* no nested.md at its root.
C15_Witness ==
    /\ pc = "done"
    /\ NoteFile("nested") \notin DOMAIN fs.files
    /\ \E n \in OneLinkNodes :
          /\ ItemsOf(Returned[n].path)[1].target = <<<<"sub">>, <<"nested">>>>
          /\ Returned[n].outbound_links = <<<<<<"sub">>, <<"nested", ".md">>>>>>

\* The path-allow policy in the words of the claim: a path fails it when
\* it lies inside .obsidian, .git, .trash or node_modules, or has an
\* extension other than .md, .markdown, .txt.
FailsPolicy(path) ==
    \/ \E i \in 1..Len(path) :
          path[i] \in {<<".obsidian">>, <<".git">>, <<".trash">>, <<"node_modules">>}
    \/ /\ path # <<>> /\ Len(Last(path)) > 1
       /\ Last(Last(path)) \notin {".md", ".markdown", ".txt"}

\* The files a target can match: the direct forms that exist, and the
\* markdown files below the vault with the wanted stem.
MatchingFiles(target) ==
    {PathJoin(vault_root, DirectForms(target)[i]) :
        i \in {j \in 1..3 : exists(fs, PathJoin(vault_root, DirectForms(target)[j])) = "yes"}}
    \cup {g \in DOMAIN fs.files :
            /\ IsPrefix(vault_root, g) /\ Len(g) > Len(vault_root)
            /\ Last(Last(g)) = ".md"
            /\ stem(g) = target_stem(target)}

OnlyBlockedMatches(target) ==
    /\ MatchingFiles(target) # {}
    /\ \A f \in MatchingFiles(target) : FailsPolicy(f)

\* C16: no path that fails the policy is ever an outbound link or a queued
\* target, and a link whose only matching files fail the policy (as direct
\* candidates or in the scan) resolves to nothing.
C16_PolicyRespected ==
    /\ \A n \in 1..Len(nodes_dict) :
          \A t \in Range(nodes_dict[n].outbound_links) : ~FailsPolicy(t)
    /\ \A q \in 1..Len(queue) : queue[q].depth > 0 => ~FailsPolicy(queue[q].path)
    /\ \A n \in OneLinkNodes :
          OnlyBlockedMatches(ItemsOf(Returned[n].path)[1].target)
              => Returned[n].outbound_links = <<>>

\* A response where a link with an existing direct candidate inside
\* .obsidian resolved to nothing, the scan finding only that file.
C16_Witness ==
    /\ pc = "done"
    /\ \E n \in OneLinkNodes :
          /\ ItemsOf(Returned[n].path)[1].target = <<<<".obsidian">>, <<"hidden">>>>
          /\ OnlyBlockedMatches(ItemsOf(Returned[n].path)[1].target)
          /\ Returned[n].outbound_links = <<>>

\* The file a node path denotes: the path resolved against the vault root.
FileOf(path) == validate_vault_path(vault_root, path).path

\* C17 as stated: every node path is the canonical vault-relative path of
\* its file, and no two nodes of a response denote the same file, whatever
\* the form of center_note and of the links.
C17_CanonicalPaths ==
    pc = "done" =>
        /\ \A i \in 1..Len(Returned) :
              Returned[i].path = relative_to(FileOf(Returned[i].path), vault_root).path
        /\ \A i, j \in 1..Len(Returned) :
              FileOf(Returned[i].path) = FileOf(Returned[j].path) => i = j

\* A sequence in which no entry occurs twice.
NoRepeats(seq) == \A i, j \in 1..Len(seq) : seq[i] = seq[j] => i = j

\* C18 as stated: inbound_links of every returned node holds paths of
\* returned nodes only, and the path of a linking node at most once, also
\* when that node holds several wikilinks to the same target.
C18_InboundIsSet ==
    pc = "done" =>
        \A i \in 1..Len(Returned) :
            /\ Range(Returned[i].inbound_links) \subseteq ReturnedPaths
            /\ NoRepeats(Returned[i].inbound_links)

\* C19: depth_reached is the greatest depth among the returned nodes, and 0
\* when no node is returned; no returned node and no queue entry is deeper
\* than the requested depth, so depth_reached <= request.depth.
C19_DepthReached ==
    /\ \A q \in 1..Len(queue) : queue[q].depth <= request.depth
    /\ pc = "done" =>
        /\ \A i \in 1..Len(Returned) : Returned[i].depth <= request.depth
        /\ \A i \in 1..Len(Returned) : Returned[i].depth <= response.depth_reached
        /\ IF Returned = <<>>
           THEN response.depth_reached = 0
           ELSE \E i \in 1..Len(Returned) : Returned[i].depth = response.depth_reached
        /\ response.depth_reached <= request.depth

\* A finished call that went as deep as requested and stopped there: a node
\* at the requested depth 2 links to an existing note that was not returned.
C19_Witness ==
    /\ pc = "done"
    /\ request.depth = 2
    /\ response.depth_reached = 2
    /\ \E i \in 1..Len(Returned) :
          /\ Returned[i].depth = 2
          /\ \E t \in Links(Returned[i]) : t \notin ReturnedPaths /\ CanRead(t)

Ended(id) == Locals(id).pc \in {"done", "raised"}

\* C20: when two calls are interleaved at their await points over the same
\* unchanged vault, each call that has ended returns the response (or raises
\* the exception) it returns when run alone.
C20_CallsIsolated ==
    \A id \in CallIds :
        Ended(id) => Locals(id).response = RunAlone(fs, RequestOf(id)).response

\* Both calls ended after running while the other was under way, each with
\* at least two nodes, and with different responses.
C20_Witness ==
    /\ second # <<>>
    /\ second[1].mixed
    /\ \A id \in CallIds :
          /\ Locals(id).pc = "done"
          /\ Len(Locals(id).response.nodes) >= 2
    /\ Locals(1).response # Locals(2).response

\* Where a path leads when taken from the vault root, its ".." segments
\* applied, and whether that is at or below the vault root.
Located(path) == resolve(IF is_absolute(path) THEN path ELSE vault_root \o path)

InsideVault(path) == IsPrefix(vault_root, Located(path))

\* C26: every node stands for a file below the vault root and every file
\* read is below it; the step that dequeues a path leaving the vault reads
\* nothing, adds no node and leaves the call in its loop.
C26_EscapeRejected ==
    [][/\ \A n \in 1..Len(nodes_dict') :
            /\ InsideVault(nodes_dict'[n].path)
            /\ Located(nodes_dict'[n].path) \in DOMAIN fs.files
       /\ \A r \in 1..Len(reads') : InsideVault(reads'[r].path)
       /\ \A q \in 1..Len(queue) :
            (q = 1 /\ Visits(queue[q].path) /\ ~InsideVault(queue[q].path)) =>
                /\ nodes_dict' = nodes_dict
                /\ reads' = reads
                /\ pc' = "loop"]_vars

\* A finished call that visited a path leaving the vault, refused it, and
\* returned the center and a note found after it.
C26_Witness ==
    /\ pc = "done"
    /\ \E p \in visited : ~InsideVault(p)
    /\ \E n \in 1..Len(Returned) : Returned[n].depth = 1

\* C27 as stated: every outbound_links entry, and so every path the
\* resolver returned, is a relative path that stays at or below the vault
\* root.
C27_ResolvedInside ==
    \A n \in 1..Len(nodes_dict) :
        \A t \in Range(nodes_dict[n].outbound_links) :
            ~is_absolute(t) /\ InsideVault(t)

\* C28 as stated: every outbound_links entry and every queued target names
\* a file of the file system, never a directory.
C28_LinksAreFiles ==
    /\ \A n \in 1..Len(nodes_dict) :
          \A t \in Range(nodes_dict[n].outbound_links) :
              Located(t) \in DOMAIN fs.files /\ Located(t) \notin fs.dirs
    /\ \A q \in 1..Len(queue) :
          queue[q].depth > 0 => Located(queue[q].path) \in DOMAIN fs.files

\* C29 as stated: no node of a response, the center included, lies in a
\* blocked directory or has an extension that is not allowed.
C29_NodesAllowed ==
    pc = "done" => \A n \in 1..Len(Returned) : ~FailsPolicy(Located(Returned[n].path))

\* The step processes a note of a non-dry-run MOVE or ARCHIVE batch whose
\* operation fails (it returns a failure or raises; a note refused before
\* its operation is not meant) after earlier notes of the batch succeeded.
FailsAfterSuccess ==
    /\ org.pc = "loop" /\ org.i < Len(org.request.notes)
    /\ org.request.operation \in {"move", "archive"} /\ ~org.request.dry_run
    /\ org.succeeded_operations # <<>>
    /\ Len(org'.results) = Len(org.results) + 1
    /\ ~Last(org'.results).success
    /\ Last(org'.results).message.text \notin {"Path not allowed", "File not found"}

\* C21: in a non-dry-run MOVE or ARCHIVE batch, when a note's operation
\* fails after earlier notes succeeded, every earlier moved file is moved
\* back to its original path, last moved first, the remaining notes are not
\* processed, and the response has rolled_back = TRUE and total_succeeded = 0.
C21_RollbackOnFailure ==
    [][FailsAfterSuccess =>
        LET done == org.succeeded_operations
            n == Len(done)
        IN  /\ org'.pc = "done"
            /\ org'.i = org.i + 1
            /\ org'.response[1].rolled_back
            /\ org'.response[1].total_succeeded = 0
            /\ \A k \in 1..n :
                  /\ done[k][1] \in DOMAIN org'.disk.files
                  /\ org'.disk.files[done[k][1]] = org.disk0.files[done[k][1]]
                  /\ resolve(done[k][2]) \notin DOMAIN org'.disk.files
            /\ SubSeq(org'.moves, Len(org'.moves) - n + 1, Len(org'.moves))
                 = [j \in 1..n |-> <<done[n + 1 - j][2], done[n + 1 - j][1]>>]]_vars

\* A batch rolled back after two notes were moved and a third found its
\* destination taken.
C21_Witness ==
    /\ org # <<>> /\ org.pc = "done"
    /\ org.response[1].rolled_back
    /\ Len(org.succeeded_operations) = 2
    /\ Last(org.results).message.text = "Destination already exists"

\* C22 as stated: with dry_run the vault stays as it was (every file at its
\* place with its content, no directory created), the message of every note
\* that was processed (a note inside the vault that the policy allows) starts
\* with "[DRY RUN]", and the response is not rolled back.
C22_DryRunChangesNothing ==
    org.request.dry_run =>
        /\ org.disk = org.disk0
        /\ \A k \in 1..Len(org.results) :
              (InsideVault(org.results[k].path)
               /\ ~FailsPolicy(Located(org.results[k].path)))
                  => org.results[k].message.dry_run
        /\ org.pc = "done" => ~org.response[1].rolled_back

\* C25 as stated: a non-dry-run MOVE or ARCHIVE batch is all-or-nothing:
\* when the call has returned and some note of the batch failed, every file
\* is where it was before the call.
C25_AtomicBatch ==
    (/\ org.pc = "done"
     /\ org.request.operation \in {"move", "archive"} /\ ~org.request.dry_run
     /\ \E k \in 1..Len(org.results) : ~org.results[k].success)
        => org.disk.files = org.disk0.files

\* C30 as stated: in every response, rolled back or not, total_succeeded is
\* the number of results with success = TRUE and total_failed the number of
\* results with success = FALSE.
C30_CountersAgree ==
    org.pc = "done" =>
        LET r == org.response[1]
        IN  /\ r.total_succeeded
                = Cardinality({k \in 1..Len(r.results) : r.results[k].success})
            /\ r.total_failed
                = Cardinality({k \in 1..Len(r.results) : ~r.results[k].success})

\* The folder of the request exists and its destination is the folder
\* itself or lies below it.
CircularMove ==
    /\ Located(fmgr.request.path) \in fmgr.disk0.dirs
    /\ ~is_critical_folder(Located(fmgr.request.path))
    /\ IsPrefix(Located(fmgr.request.path), Located(fmgr.request.destination))

\* C23 as stated: a folder MOVE, dry-run or not, whose destination is the
\* folder itself or one of its descendants ends with an error and leaves
\* the vault as it was: nothing moved, no directory created.
C23_CircularMoveRejected ==
    (CircularMove /\ fmgr.kind # "called") =>
        /\ fmgr.kind # "returned"
        /\ fmgr.disk = fmgr.disk0

\* ------------------------------------------------------------------------
\* Properties of manage_note_service (NoteSpec)
\* ------------------------------------------------------------------------

\* The body of the note before the call and the find text of the request.
BodyBefore == frontmatter_loads(nmgr.disk0.files[InVault(nmgr.request.path)]).body

Occurrences == str_count(BodyBefore, nmgr.request.find_replace[1])

\* A PATCH reached the count of the occurrences: the call returned.
Patched == nmgr # <<>> /\ nmgr.kind = "returned"

\* C24: a PATCH whose find text occurs in the note body zero times, or more
\* than once while replace_all is False, returns success=False with the
\* match count and leaves the note file unchanged; the file is written only
\* when there is exactly one occurrence or replace_all is True.
C24_PatchSafety ==
    /\ (Patched /\ (Occurrences = 0 \/ (Occurrences > 1 /\ ~nmgr.request.replace_all)))
       => /\ nmgr.response[1].success = FALSE
          /\ nmgr.response[1].match_count = Occurrences
          /\ nmgr.disk = nmgr.disk0
          /\ nmgr.writes = 0
    /\ (nmgr # <<>> /\ (nmgr.writes > 0 \/ nmgr.disk # nmgr.disk0))
       => /\ Patched
          /\ Occurrences = 1 \/ nmgr.request.replace_all

\* A PATCH without replace_all whose find text occurs twice in the body was
\* refused with match_count 2 and the file is as it was.
C24_Witness ==
    /\ Patched
    /\ Occurrences = 2
    /\ ~nmgr.request.replace_all
    /\ nmgr.response[1].success = FALSE
    /\ nmgr.response[1].match_count = 2
    /\ nmgr.disk = nmgr.disk0

=============================================================================
